---- MODULE Spec2Model ----
(***************************************************************************)
(* A model of webp-screenshot-rust's core: the buffer pool                 *)
(* (src/memory_pool.rs), the adaptive quality rule and the streaming       *)
(* pipeline's threads and channels (src/pipeline/streaming.rs).            *)
(*                                                                         *)
(* Thirteen specifications share the module; each one moves only its own  *)
(* variables and leaves the others at their initial values:                *)
(*   SpecPool    one caller using one MemoryPool sequentially              *)
(*   SpecPoolThreads  one MemoryPool built and then shared by threads      *)
(*   SpecAdjust  StreamingPipeline::adjust_quality as a pure function      *)
(*   SpecPipe    one StreamingPipeline, its threads interleaved            *)
(*   SpecPipeFair  SpecPipe with every spawned thread scheduled fairly     *)
(*   SpecLifecycle  one StreamingPipeline started and stopped repeatedly   *)
(*                 by callers that share it                                *)
(*   SpecZeroCopy  one ZeroCopyOptimizer (src/pipeline/zero_copy.rs) and   *)
(*                 the calls made on it                                    *)
(*   SpecSimd    one SimdConverter (src/encoder/simd.rs) and the          *)
(*                 conversions made on one buffer                          *)
(*   SpecZeroCopyThreads  one ZeroCopyOptimizer shared by threads          *)
(*   SpecScreenshot  the retry loop of WebPScreenshot::capture_display     *)
(*                 (src/lib.rs)                                            *)
(*   SpecStatsThread  the statistics thread of a StreamingPipeline         *)
(*   SpecPacing  one capture thread of a StreamingPipeline and the clock   *)
(*   SpecPixelConverter  the two pixel converters of src/capture/traits.rs *)
(***************************************************************************)
EXTENDS Integers, Sequences, FiniteSets, TLC

(***************************************************************************)
(* Bounds of the model.                                                    *)
(***************************************************************************)
MaxSize == 4          \* largest size a caller asks the pool for
MaxOps == 5           \* pool operations in one run
MaxTime == 2          \* clock ticks in one run
MaxOutstanding == 2   \* buffers a caller holds at once

VARIABLES
    \* ---- MemoryPool (src/memory_pool.rs) ----
    config,     \* PoolConfig
    buffers,    \* MemoryPoolInner.buffers: the idle list, head first
    stats,      \* PoolStatsAtomic
    now,        \* the clock Instant::now() reads
    held,       \* the PooledBuffers the caller holds
    last,       \* the last pool call and what it returned
    ops,        \* pool calls made so far
    \* ---- the build ----
    overflow_checks,  \* TRUE: integer overflow panics (debug); FALSE: it wraps
    \* ---- adjust_quality as a function (src/pipeline/streaming.rs) ----
    adj_in,     \* the WebPConfig passed in (quality, method, lossless)
    adj_args,   \* capture_duration in ms and buffer_depth, or Nil
    adj_out,    \* what the call gave, or Nil before it
    \* ---- StreamingPipeline (src/pipeline/streaming.rs) ----
    pcfg,           \* StreamingConfig
    env,            \* the surroundings: frames the capturer yields, whether encode may
                    \* fail, the start/stop calls the caller makes
    running,        \* the shared AtomicBool
    spawned,        \* start() has spawned the threads
    frame_counter,  \* the shared AtomicU64
    capture_q,      \* the capture->encode channel, head first
    encode_q,       \* the encode->output channel, head first
    streaming,      \* StreamingStats under its mutex
    cap,            \* the capture threads: where each is, the frame it holds
    enc,            \* the encoder threads: where each is, frame, config, payload
    outp,           \* where the output thread is
    statp,          \* where the stats thread is
    delivered,      \* the payloads the callback was called with, in order
    hist,           \* history: frames popped, dropped, failed, lost to a panic
    calls,          \* start/stop calls made so far
    last_call,      \* the last start/stop call and what it returned
    \* ---- ZeroCopyOptimizer (src/pipeline/zero_copy.rs) ----
    zc_supported,   \* is_supported(): the target has a platform path
    zc_enabled,     \* ZeroCopyOptimizer.enabled
    zc_stats,       \* ZeroCopyStats under its mutex
    zc_last,        \* the last call on the optimizer and what it returned
    zc_calls,       \* capture_zero_copy calls made so far
    \* ---- SimdConverter (src/encoder/simd.rs) ----
    converter,      \* the SimdConverter: target and detected features
    simd_in,        \* the buffers as the caller first had them
    simd_data,      \* the buffer converted in place, the source of rgba->rgb
    simd_dst,       \* the destination of rgba->rgb
    simd_log,       \* the conversions made so far: arguments and outcome
    \* ---- MemoryPool shared by threads (src/memory_pool.rs) ----
    pool_pc,        \* where with_config is, "shared" once the pool is handed out
    lock,           \* who holds MemoryPool.inner's mutex: a thread, Constructor, Unlocked
    thr,            \* the threads: where each is in acquire, its size, the
                    \* current_memory_usage it loaded, the handles it holds
    allocs,         \* history: the buffer allocations made so far
    \* ---- StreamingPipeline started and stopped repeatedly ----
    callers,        \* where each caller is inside start()
    runs,           \* one entry per start() that spawned: whether stop() was
                    \* called since
    threads,        \* every thread spawned so far
    life_log,       \* the start() and stop() calls that have returned
    \* ---- ZeroCopyOptimizer shared by threads ----
    zc_lock,        \* who holds ZeroCopyOptimizer.stats' mutex: a thread or Unlocked
    zc_thr,         \* the threads: the call each is in and where, the calls it completed
    \* ---- WebPScreenshot::capture_display (src/lib.rs) ----
    shot,           \* the WebPScreenshot: max_retries, its stats, the call in progress
    shot_last,      \* the last capture_display call that returned or unwound
    \* ---- a capture thread pacing itself (src/pipeline/streaming.rs) ----
    clock,          \* Instant::now(), in microseconds
    pace            \* one capture thread: target_fps, its deadline, where it is, what it has done

poolVars == <<config, buffers, stats, now, held, last, ops>>
adjVars == <<adj_in, adj_args, adj_out>>
pipeVars == <<pcfg, env, running, spawned, frame_counter, capture_q, encode_q,
              streaming, cap, enc, outp, statp, delivered, hist, calls, last_call>>

zcVars == <<zc_supported, zc_enabled, zc_stats, zc_last, zc_calls>>

simdVars == <<converter, simd_in, simd_data, simd_dst, simd_log>>

threadVars == <<pool_pc, lock, thr, allocs>>

lifeVars == <<callers, runs, threads, life_log>>

zcThreadVars == <<zc_lock, zc_thr>>

shotVars == <<shot, shot_last>>

paceVars == <<clock, pace>>

vars == <<poolVars, overflow_checks, adjVars, pipeVars, zcVars, simdVars, threadVars,
          lifeVars,
          zcThreadVars,
          shotVars,
          paceVars>>

\* What a step of one component leaves alone: the other components.
PoolFrame ==
    UNCHANGED <<overflow_checks, adjVars, pipeVars, zcVars, simdVars, threadVars, lifeVars,
                zcThreadVars,
                shotVars,
                paceVars>>
AdjustFrame ==
    UNCHANGED <<poolVars, pipeVars, zcVars, simdVars, threadVars, lifeVars,
                zcThreadVars,
                shotVars,
                paceVars>>
PipeFrame ==
    UNCHANGED <<poolVars, overflow_checks, adjVars, zcVars, simdVars, threadVars, lifeVars,
                zcThreadVars,
                shotVars,
                paceVars>>
ZeroCopyFrame ==
    UNCHANGED <<poolVars, overflow_checks, adjVars, pipeVars, simdVars, threadVars, lifeVars,
                zcThreadVars,
                shotVars,
                paceVars>>
SimdFrame ==
    UNCHANGED <<poolVars, overflow_checks, adjVars, pipeVars, zcVars, threadVars, lifeVars,
                zcThreadVars,
                shotVars,
                paceVars>>
PoolThreadsFrame ==
    UNCHANGED <<now, held, last, ops, overflow_checks, adjVars, pipeVars, zcVars, simdVars,
                lifeVars,
                zcThreadVars,
                shotVars,
                paceVars>>
LifecycleFrame ==
    UNCHANGED <<env, spawned, frame_counter, capture_q, encode_q, streaming, cap, enc,
                outp, statp, delivered, hist, calls, last_call,
                poolVars, overflow_checks, adjVars, zcVars, simdVars, threadVars,
                zcThreadVars,
                shotVars,
                paceVars>>

\* The value of a variable, or of a field, that holds nothing yet.
Nil == [nil |-> TRUE]

Min(a, b) == IF a < b THEN a ELSE b
Max(a, b) == IF a > b THEN a ELSE b
RemoveAt(s, i) == SubSeq(s, 1, i - 1) \o SubSeq(s, i + 1, Len(s))

(***************************************************************************)
(* MemoryPool                                                              *)
(***************************************************************************)

\* The configurations with_config is given here: a cap that two buffers of
\* MaxSize exceed and one that nothing reaches, an idle list of one or two
\* entries, a timeout of one tick, with and without pre-allocation.
PoolConfigs ==
    [max_buffers : {1, 2},
     max_memory : {MaxSize + 1, 100 * MaxSize},
     buffer_timeout : {1},
     preallocate : BOOLEAN,
     default_buffer_size : {2}]

\* BufferEntry::new: buffer is the Vec's length, size the recorded size.
\* use_count is left out: it is written on an entry only after the entry
\* has left the list, and nothing reads it.
BufferEntry(buffer, size, t) ==
    [buffer |-> buffer, size |-> size, last_used |-> t]

\* matches_size without its upper limit: any entry large enough fits.
matches_size_unbounded(entry, requested_size) ==
    entry.size >= requested_size

matches_size(entry, requested_size) ==
    entry.size >= requested_size /\ entry.size <= requested_size * 2

is_expired(entry, t, timeout) == t - entry.last_used > timeout

cleanup_expired_buffers(bufs, t, timeout) ==
    SelectSeq(bufs, LAMBDA e : ~is_expired(e, t, timeout))

\* Option<usize> as 0 (None) or the 1-based position.
find_suitable_buffer(bufs, size) ==
    LET hits == {i \in 1..Len(bufs) : matches_size(bufs[i], size)}
    IN  IF hits = {} THEN 0
        ELSE CHOOSE i \in hits : \A j \in hits : i <= j

\* preallocate_buffers: min(max_buffers, 4) idle entries of the default size.
preallocate_buffers(cfg) ==
    [i \in 1..Min(cfg.max_buffers, 4) |->
        BufferEntry(cfg.default_buffer_size, cfg.default_buffer_size, 0)]

update_peak_memory(st) ==
    [st EXCEPT !.peak_memory_usage = Max(st.peak_memory_usage, st.current_memory_usage)]

\* The cap check without the size asked for: only a pool already over
\* max_memory refuses to track.
PoolLimitWithoutRequest(current_memory, size, max_memory) ==
    current_memory > max_memory

\* The cap check of allocate_new_buffer.
PoolLimitReached(current_memory, size, max_memory) ==
    current_memory + size > max_memory

\* allocate_new_buffer: the buffer handed out and the counters after it.
\* pool is TRUE for Some(pool), FALSE for None.
allocate_new_buffer(st, size, max_memory) ==
    IF PoolLimitReached(st.current_memory_usage, size, max_memory)
    THEN [stats |-> st,
          buf |-> [data |-> size, size |-> size, pool |-> FALSE]]
    ELSE [stats |-> update_peak_memory(
                      [st EXCEPT !.total_buffers_created = @ + 1,
                                 !.current_memory_usage = @ + size]),
          buf |-> [data |-> size, size |-> size, pool |-> TRUE]]

\* The hit path without the reuse count.
AcquireHitNoReuse(st, entry, size) ==
    [stats |-> [st EXCEPT !.current_memory_usage = @ + entry.size,
                          !.buffer_hits = @ + 1],
     buf |-> [data |-> entry.buffer, size |-> size, pool |-> TRUE]]

\* The hit path of acquire, lines 219-248: entry is the idle entry taken.
\* The handle records the requested size, the counter takes entry.size.
AcquireHit(st, entry, size) ==
    LET grow == entry.buffer < size
        st1 == [st EXCEPT !.current_memory_usage = @ + entry.size]
        st2 == IF grow
               THEN [st1 EXCEPT !.current_memory_usage = @ + (size - entry.size)]
               ELSE st1
    IN  [stats |-> [st2 EXCEPT !.buffer_hits = @ + 1,
                               !.memory_reuse_count = @ + 1],
         buf |-> [data |-> IF grow THEN size ELSE entry.buffer,
                  size |-> size, pool |-> TRUE]]

\* release_internal without the max_buffers check.
release_internal_unbounded(st, bufs, data, size, cfg, t) ==
    [stats |-> [st EXCEPT !.current_memory_usage = @ - size],
     buffers |-> Append(bufs, BufferEntry(data, size, t))]

\* release_internal: the counters and the idle list after a buffer of
\* length data and recorded size is returned at time t.
release_internal(st, bufs, data, size, cfg, t) ==
    [stats |-> [st EXCEPT !.current_memory_usage = @ - size],
     buffers |-> IF Len(bufs) >= cfg.max_buffers
                 THEN bufs
                 ELSE Append(bufs, BufferEntry(data, size, t))]

\* MemoryPool::stats(): the snapshot's derived fields.
pooled_memory == LET Sum[i \in 0..Len(buffers)] ==
                        IF i = 0 THEN 0 ELSE Sum[i - 1] + buffers[i].size
                 IN  Sum[Len(buffers)]
available_buffers == Len(buffers)

PoolInit ==
    /\ config \in PoolConfigs
    /\ buffers = IF config.preallocate THEN preallocate_buffers(config) ELSE <<>>
    /\ stats = [total_buffers_created |->
                    IF config.preallocate THEN Min(config.max_buffers, 4) ELSE 0,
                memory_reuse_count |-> 0,
                peak_memory_usage |-> 0,
                current_memory_usage |-> 0,
                buffer_hits |-> 0,
                buffer_misses |-> 0]
    /\ now = 0
    /\ held = <<>>
    /\ last = [op |-> "new", size |-> 0, ok |-> TRUE, hit |-> FALSE, buf |-> Nil]
    /\ ops = 0

\* acquire(0) with the size check after the lock and the clean-up.
AcquireZeroAfterCleanup ==
    /\ ops < MaxOps
    /\ ops' = ops + 1
    /\ buffers' = cleanup_expired_buffers(buffers, now, config.buffer_timeout)
    /\ last' = [op |-> "acquire", size |-> 0, ok |-> FALSE, hit |-> FALSE, buf |-> Nil,
                err |-> "InvalidBufferSize"]
    /\ UNCHANGED <<config, stats, now, held>>
    /\ PoolFrame

\* acquire(0): InvalidBufferSize, before the lock is taken.
AcquireZero ==
    /\ ops < MaxOps
    /\ ops' = ops + 1
    /\ last' = [op |-> "acquire", size |-> 0, ok |-> FALSE, hit |-> FALSE, buf |-> Nil,
                err |-> "InvalidBufferSize"]
    /\ UNCHANGED <<config, buffers, stats, now, held>>
    /\ PoolFrame

\* acquire(size), size > 0, served from the idle list.
AcquireFromPool ==
    \E size \in 1..MaxSize :
        LET live == cleanup_expired_buffers(buffers, now, config.buffer_timeout)
            index == find_suitable_buffer(live, size)
        IN  /\ ops < MaxOps
            /\ Len(held) < MaxOutstanding
            /\ index # 0
            /\ LET r == AcquireHit(stats, live[index], size)
               IN  /\ stats' = r.stats
                   /\ held' = Append(held, r.buf)
                   /\ last' = [op |-> "acquire", size |-> size, ok |-> TRUE,
                               hit |-> TRUE, buf |-> r.buf]
            /\ buffers' = RemoveAt(live, index)
            /\ ops' = ops + 1
            /\ UNCHANGED <<config, now>>
            /\ PoolFrame

\* acquire(size), size > 0, no idle entry suits: a miss.
AcquireNew ==
    \E size \in 1..MaxSize :
        LET live == cleanup_expired_buffers(buffers, now, config.buffer_timeout)
        IN  /\ ops < MaxOps
            /\ Len(held) < MaxOutstanding
            /\ find_suitable_buffer(live, size) = 0
            /\ LET r == allocate_new_buffer(
                            [stats EXCEPT !.buffer_misses = @ + 1],
                            size, config.max_memory)
               IN  /\ stats' = r.stats
                   /\ held' = Append(held, r.buf)
                   /\ last' = [op |-> "acquire", size |-> size, ok |-> TRUE,
                               hit |-> FALSE, buf |-> r.buf]
            /\ buffers' = live
            /\ ops' = ops + 1
            /\ UNCHANGED <<config, now>>
            /\ PoolFrame

\* Drop for PooledBuffer: the handle's scope ends.
Release ==
    \E i \in 1..Len(held) :
        /\ ops < MaxOps
        /\ IF held[i].pool
           THEN LET r == release_internal(stats, buffers, held[i].data,
                                          held[i].size, config, now)
                IN  stats' = r.stats /\ buffers' = r.buffers
           ELSE UNCHANGED <<stats, buffers>>
        /\ held' = RemoveAt(held, i)
        /\ last' = [op |-> "drop", size |-> held[i].size, ok |-> TRUE,
                    hit |-> FALSE, buf |-> held[i]]
        /\ ops' = ops + 1
        /\ UNCHANGED <<config, now>>
        /\ PoolFrame

\* into_vec that still lets Drop hand the buffer back to the pool.
IntoVecAlsoReleases ==
    \E i \in 1..Len(held) :
        /\ ops < MaxOps
        /\ IF held[i].pool
           THEN LET st == [stats EXCEPT !.current_memory_usage = @ - held[i].size]
                    r == release_internal(st, buffers, held[i].data,
                                          held[i].size, config, now)
                IN  stats' = r.stats /\ buffers' = r.buffers
           ELSE UNCHANGED <<stats, buffers>>
        /\ held' = RemoveAt(held, i)
        /\ last' = [op |-> "into_vec", size |-> held[i].size, ok |-> TRUE,
                    hit |-> FALSE, buf |-> held[i]]
        /\ ops' = ops + 1
        /\ UNCHANGED <<config, now>>
        /\ PoolFrame

\* PooledBuffer::into_vec: the caller keeps the Vec.
IntoVec ==
    \E i \in 1..Len(held) :
        /\ ops < MaxOps
        /\ stats' = IF held[i].pool
                    THEN [stats EXCEPT !.current_memory_usage = @ - held[i].size]
                    ELSE stats
        /\ held' = RemoveAt(held, i)
        /\ last' = [op |-> "into_vec", size |-> held[i].size, ok |-> TRUE,
                    hit |-> FALSE, buf |-> held[i]]
        /\ ops' = ops + 1
        /\ UNCHANGED <<config, buffers, now>>
        /\ PoolFrame

\* MemoryPool::clear.
Clear ==
    /\ ops < MaxOps
    /\ buffers' = <<>>
    /\ last' = [op |-> "clear", size |-> 0, ok |-> TRUE, hit |-> FALSE, buf |-> Nil]
    /\ ops' = ops + 1
    /\ UNCHANGED <<config, stats, now, held>>
    /\ PoolFrame

\* Time passes between two calls.
Tick ==
    /\ now < MaxTime
    /\ now' = now + 1
    /\ UNCHANGED <<config, buffers, stats, held, last, ops>>
    /\ PoolFrame

PoolNext ==
    \/ AcquireZero
    \/ AcquireFromPool
    \/ AcquireNew
    \/ Release
    \/ IntoVec
    \/ Clear
    \/ Tick

\* The pool before with_config: the value the pool's variables keep in the
\* specifications that are not about it.
PoolIdle ==
    /\ config = Nil /\ buffers = <<>> /\ stats = Nil /\ now = 0
    /\ held = <<>> /\ last = Nil /\ ops = 0

(***************************************************************************)
(* adjust_quality                                                          *)
(***************************************************************************)
U8Modulus == 256
SlowCaptureMs == 20     \* capture_duration > 20 ms: slow
FastCaptureMs == 10     \* capture_duration < 10 ms: fast
DeepBacklog == 30       \* buffer_depth > 30: backing up
ShallowBacklog == 10    \* buffer_depth < 10: keeping up
QualityStepDown == 5
QualityStepUp == 2
QualityFloor == 60
QualityCeiling == 90
MethodCeiling == 4

\* u8 arithmetic as the release build does it.
WrapU8(x) == (x + U8Modulus) % U8Modulus

\* Whether a - b, or a + b, leaves u8: the debug build panics there.
SubOverflows(a, b) == a < b
AddOverflows(a, b) == a + b >= U8Modulus

Panic == [panic |-> TRUE]

\* StreamingPipeline::adjust_quality on the two fields it touches; the
\* other fields of WebPConfig pass through.  checks is the build's
\* overflow-checks setting: an overflowing u8 operation panics when it is
\* on and wraps when it is off.
adjust_quality(cfg, capture_duration, buffer_depth, checks) ==
    IF capture_duration > SlowCaptureMs \/ buffer_depth > DeepBacklog
    THEN IF checks /\ (SubOverflows(cfg.quality, QualityStepDown)
                       \/ SubOverflows(cfg.method, 1))
         THEN Panic
         ELSE [cfg EXCEPT
                 !.quality = Max(WrapU8(cfg.quality - QualityStepDown), QualityFloor),
                 !.method = Max(WrapU8(cfg.method - 1), 0)]
    ELSE IF capture_duration < FastCaptureMs /\ buffer_depth < ShallowBacklog
    THEN IF checks /\ (AddOverflows(cfg.quality, QualityStepUp)
                       \/ AddOverflows(cfg.method, 1))
         THEN Panic
         ELSE [cfg EXCEPT
                 !.quality = Min(WrapU8(cfg.quality + QualityStepUp), QualityCeiling),
                 !.method = Min(WrapU8(cfg.method + 1), MethodCeiling)]
    ELSE cfg

\* The arguments the function is tried on: every u8 quality, the method
\* values around both ends of u8 and around the documented 0..6, capture
\* durations and backlogs on both sides of every threshold.
QualityInputs == 0..(U8Modulus - 1)
MethodInputs == {0, 1, 2, 3, 4, 5, 6, U8Modulus - 2, U8Modulus - 1}
DurationInputs == {5, 10, 15, 20, 25}
DepthInputs == {0, 9, 10, 30, 31, 40}

AdjustInit ==
    /\ overflow_checks \in BOOLEAN
    /\ adj_in \in [quality : QualityInputs, method : MethodInputs,
                    lossless : BOOLEAN]
    /\ adj_args = Nil
    /\ adj_out = Nil

AdjustIdle == adj_in = Nil /\ adj_args = Nil /\ adj_out = Nil

\* One call of adjust_quality.
AdjustCall ==
    \E d \in DurationInputs, b \in DepthInputs :
        /\ adj_out = Nil
        /\ adj_args' = [capture_duration |-> d, buffer_depth |-> b]
        /\ adj_out' = adjust_quality(adj_in, d, b, overflow_checks)
        /\ UNCHANGED <<overflow_checks, adj_in>>
        /\ AdjustFrame

AdjustNext == AdjustCall

(***************************************************************************)
(* ZeroCopyOptimizer                                                       *)
(*                                                                         *)
(* One optimizer and the calls made on it, one at a time (every call       *)
(* takes the stats mutex).  The platform path and the capturer are the     *)
(* surroundings: each call draws what they give.  Image widths and heights *)
(* are counted in units of 256 pixels and byte counts in blocks of 2^16    *)
(* bytes, so that width * height * 4 in blocks is the product of the two   *)
(* unit counts times 4, and 2^32 bytes are U32Blocks blocks; the products  *)
(* of the code are then exact in the model's integers.                     *)
(***************************************************************************)
MaxCaptures == 3        \* capture_zero_copy calls in one run

U32Blocks == 65536      \* 2^32 bytes (RawImage.width, height: u32) in blocks

\* u32 arithmetic as the release build does it.
WrapU32(x) == x % U32Blocks

\* Whether width * height * 4 leaves u32 at either multiplication.
MulOverflowsU32(width, height) ==
    width * height >= U32Blocks \/ WrapU32(width * height) * 4 >= U32Blocks

\* (image.width * image.height * 4) as u64, line 124: the u32 product.
memory_saved_estimate(width, height) == WrapU32(WrapU32(width * height) * 4)

\* Widths and heights (units of 256 pixels): none, 2048, 32768, 46336 and
\* 65536 pixels; 32768 x 32768 x 4 is exactly 2^32.
DimInputs == {0, 8, 128, 181, 256}

\* What start_time.elapsed().as_millis() may give.
ElapsedInputs == {0, 1}

\* What capturer.capture_display(display_index) gives, or would give.
CapturerResults ==
    { [ok |-> TRUE, val |-> "capturer_image"],
      [ok |-> FALSE, val |-> "DisplayNotFound"],
      [ok |-> FALSE, val |-> "CaptureFailed"] }

PlatformImage == [ok |-> TRUE, val |-> "platform_image"]
ZeroCopyPanic == [ok |-> FALSE, val |-> "panic"]

ZeroCopyStatsDefault ==
    [zero_copy_captures |-> 0, traditional_captures |-> 0,
     memory_saved_bytes |-> 0, time_saved_ms |-> 0, failed_attempts |-> 0]

is_enabled(enabled, supported) == enabled /\ supported

\* ZeroCopyStats::efficiency_percent, lines 31-38: the whole part of the
\* percentage.
efficiency_percent(s) ==
    LET total == s.zero_copy_captures + s.traditional_captures
    IN  IF total = 0 THEN 0 ELSE (s.zero_copy_captures * 100) \div total

\* ZeroCopyOptimizer::new.
ZeroCopyInit ==
    /\ overflow_checks \in BOOLEAN
    /\ zc_supported \in BOOLEAN
    /\ zc_enabled = zc_supported
    /\ zc_stats = ZeroCopyStatsDefault
    /\ zc_last = [op |-> "new", platform |-> "none", width |-> 0, height |-> 0,
                  would |-> Nil, capturer_calls |-> 0, result |-> Nil,
                  completed |-> 0]
    /\ zc_calls = 0

ZeroCopyIdle ==
    /\ zc_supported = FALSE /\ zc_enabled = FALSE /\ zc_stats = Nil
    /\ zc_last = Nil /\ zc_calls = 0

\* set_enabled(enabled).
SetEnabled ==
    \E b \in BOOLEAN :
        /\ zc_enabled' = b
        /\ zc_last' = [op |-> "set_enabled", platform |-> "none", width |-> 0,
                       height |-> 0, would |-> Nil, capturer_calls |-> 0,
                       result |-> Nil,
                       completed |-> zc_last.completed]
        /\ UNCHANGED <<overflow_checks, zc_supported, zc_stats, zc_calls>>
        /\ ZeroCopyFrame

\* The disabled path without its count.
CaptureDisabledUncounted ==
    \E would \in CapturerResults :
        /\ zc_calls < MaxCaptures
        /\ ~is_enabled(zc_enabled, zc_supported)
        /\ zc_last' = [op |-> "capture", platform |-> "none", width |-> 0,
                       height |-> 0, would |-> would, capturer_calls |-> 1,
                       result |-> would,
                       completed |-> zc_last.completed + 1]
        /\ zc_calls' = zc_calls + 1
        /\ UNCHANGED <<overflow_checks, zc_supported, zc_enabled, zc_stats>>
        /\ ZeroCopyFrame

\* capture_zero_copy, lines 105-110: not enabled, the capturer does it.
CaptureDisabled ==
    \E would \in CapturerResults :
        /\ zc_calls < MaxCaptures
        /\ ~is_enabled(zc_enabled, zc_supported)
        /\ zc_stats' = [zc_stats EXCEPT !.traditional_captures = @ + 1]
        /\ zc_last' = [op |-> "capture", platform |-> "none", width |-> 0,
                       height |-> 0, would |-> would, capturer_calls |-> 1,
                       result |-> would,
                       completed |-> zc_last.completed + 1]
        /\ zc_calls' = zc_calls + 1
        /\ UNCHANGED <<overflow_checks, zc_supported, zc_enabled>>
        /\ ZeroCopyFrame

\* capture_zero_copy, lines 115-126: the platform path gives an image.  A
\* platform path computes width * height * 4 itself before it returns
\* (lines 321, 436, 657), so with overflow checks on it gives no image
\* whose product overflows.
CapturePlatformOk ==
    \E width \in DimInputs, height \in DimInputs, elapsed \in ElapsedInputs,
       would \in CapturerResults :
        /\ zc_calls < MaxCaptures
        /\ is_enabled(zc_enabled, zc_supported)
        /\ ~(overflow_checks /\ MulOverflowsU32(width, height))
        /\ zc_stats' = [zc_stats EXCEPT
                          !.zero_copy_captures = @ + 1,
                          !.time_saved_ms = @ + elapsed,
                          !.memory_saved_bytes =
                              @ + memory_saved_estimate(width, height)]
        /\ zc_last' = [op |-> "capture", platform |-> "ok", width |-> width,
                       height |-> height, would |-> would, capturer_calls |-> 0,
                       result |-> PlatformImage,
                       completed |-> zc_last.completed + 1]
        /\ zc_calls' = zc_calls + 1
        /\ UNCHANGED <<overflow_checks, zc_supported, zc_enabled>>
        /\ ZeroCopyFrame

\* capture_zero_copy, line 115: with overflow checks on, the platform
\* path panics at its own width * height * 4; no lock is held yet.
CapturePlatformPanic ==
    \E width \in DimInputs, height \in DimInputs, would \in CapturerResults :
        /\ zc_calls < MaxCaptures
        /\ is_enabled(zc_enabled, zc_supported)
        /\ overflow_checks /\ MulOverflowsU32(width, height)
        /\ zc_last' = [op |-> "capture", platform |-> "panic", width |-> width,
                       height |-> height, would |-> would, capturer_calls |-> 0,
                       result |-> ZeroCopyPanic,
                       completed |-> zc_last.completed]
        /\ zc_calls' = zc_calls + 1
        /\ UNCHANGED <<overflow_checks, zc_supported, zc_enabled, zc_stats>>
        /\ ZeroCopyFrame

\* The error arm returning the platform path's error instead of falling
\* back: the attempt is counted, the capturer is not asked.
CapturePlatformErrSurfaced ==
    \E would \in CapturerResults :
        /\ zc_calls < MaxCaptures
        /\ is_enabled(zc_enabled, zc_supported)
        /\ zc_stats' = [zc_stats EXCEPT !.failed_attempts = @ + 1]
        /\ zc_last' = [op |-> "capture", platform |-> "err", width |-> 0,
                       height |-> 0, would |-> would, capturer_calls |-> 0,
                       result |-> [ok |-> FALSE, val |-> "PlatformError"],
                       completed |-> zc_last.completed + 1]
        /\ zc_calls' = zc_calls + 1
        /\ UNCHANGED <<overflow_checks, zc_supported, zc_enabled>>
        /\ ZeroCopyFrame

\* capture_zero_copy, lines 127-133: the platform path fails, the capturer
\* does it.
CapturePlatformErr ==
    \E would \in CapturerResults :
        /\ zc_calls < MaxCaptures
        /\ is_enabled(zc_enabled, zc_supported)
        /\ zc_stats' = [zc_stats EXCEPT !.failed_attempts = @ + 1,
                                        !.traditional_captures = @ + 1]
        /\ zc_last' = [op |-> "capture", platform |-> "err", width |-> 0,
                       height |-> 0, would |-> would, capturer_calls |-> 1,
                       result |-> would,
                       completed |-> zc_last.completed + 1]
        /\ zc_calls' = zc_calls + 1
        /\ UNCHANGED <<overflow_checks, zc_supported, zc_enabled>>
        /\ ZeroCopyFrame

\* reset_stats() leaving failed_attempts as it was.
ResetStatsKeepsFailed ==
    /\ zc_stats # ZeroCopyStatsDefault
    /\ zc_stats' = [ZeroCopyStatsDefault EXCEPT
                      !.failed_attempts = zc_stats.failed_attempts]
    /\ zc_last' = [op |-> "reset_stats", platform |-> "none", width |-> 0,
                   height |-> 0, would |-> Nil, capturer_calls |-> 0,
                   result |-> Nil, completed |-> 0]
    /\ UNCHANGED <<overflow_checks, zc_supported, zc_enabled, zc_calls>>
    /\ ZeroCopyFrame

\* reset_stats().
ResetStats ==
    /\ zc_stats # ZeroCopyStatsDefault
    /\ zc_stats' = ZeroCopyStatsDefault
    /\ zc_last' = [op |-> "reset_stats", platform |-> "none", width |-> 0,
                   height |-> 0, would |-> Nil, capturer_calls |-> 0,
                   result |-> Nil,
                   completed |-> 0]
    /\ UNCHANGED <<overflow_checks, zc_supported, zc_enabled, zc_calls>>
    /\ ZeroCopyFrame

ZeroCopyNext ==
    \/ SetEnabled
    \/ CaptureDisabled
    \/ CapturePlatformOk
    \/ CapturePlatformPanic
    \/ CapturePlatformErr
    \/ ResetStats

(***************************************************************************)
(* StreamingPipeline                                                       *)
(*                                                                         *)
(* One pipeline and the threads of one start().  Each thread is a small    *)
(* program counter machine over the loop it runs; a step is one access to  *)
(* shared state (the running flag, a channel, the stats mutex) with the    *)
(* local work that follows it.  A frame is its id; a payload is the id of  *)
(* the frame it was encoded from.  capture_duration is measured by the     *)
(* capture thread and read only by adjust_quality: the model draws it      *)
(* where it is read.  The pacing sleep and the fields the stats thread     *)
(* derives once per second (fps, bitrate, averages) are not modelled.      *)
(* The caller does not call start() again after stop(), and start() is    *)
(* one step: SpecLifecycle below covers both.                              *)
(***************************************************************************)
DropThreshold == 10    \* rx.len() > 10: the frame is dropped
MaxFrames == 2         \* frames the capturer yields in the small scenarios
MaxCalls == 2          \* start/stop calls the caller makes in the small scenarios

CaptureIds == {1}
EncoderIds == {1, 2}
NoFrame == -1

WebPFast == [quality |-> 75, method |-> 0]       \* WebPConfig::fast()
WebPDefault == [quality |-> 80, method |-> 4]    \* WebPConfig::default()

\* The capture durations (ms) a frame may carry.
FrameDurations == {5, 15, 25}

\* The length of the payload the encoder returns for a frame.
WebPLen(frame) == frame + 1

\* The runs modelled.  Small: a channel of one slot, two encoder threads,
\* the default adaptive configuration (WebPConfig::fast(), frame dropping
\* on), an encoder that may fail, either build, a caller that makes up to
\* MaxCalls calls.  Backlog: a channel that holds more than DropThreshold
\* frames in front of one encoder thread that never fails, frame dropping
\* on or off, a caller that starts the pipeline and lets it run.  Blocked:
\* channels of one slot, one encoder thread that never fails and enough
\* frames to fill both channels and leave a sender waiting on each.
PipeScenarios ==
    { [pcfg |-> [buffer_size |-> 1, capture_threads |-> 1, encoding_threads |-> 2,
                 adaptive_quality |-> TRUE, allow_frame_drop |-> TRUE,
                 webp_config |-> WebPFast],
       env |-> [frames |-> MaxFrames, encoder_may_fail |-> TRUE, calls |-> MaxCalls],
       overflow_checks |-> c] : c \in BOOLEAN }
    \cup
    { [pcfg |-> [buffer_size |-> DropThreshold + 2, capture_threads |-> 1,
                 encoding_threads |-> 1,
                 adaptive_quality |-> FALSE, allow_frame_drop |-> d,
                 webp_config |-> WebPDefault],
       env |-> [frames |-> DropThreshold + MaxFrames, encoder_may_fail |-> FALSE,
                calls |-> 1],
       overflow_checks |-> FALSE] : d \in BOOLEAN }
    \cup
    { [pcfg |-> [buffer_size |-> 1, capture_threads |-> 1, encoding_threads |-> 1,
                 adaptive_quality |-> FALSE, allow_frame_drop |-> FALSE,
                 webp_config |-> WebPDefault],
       env |-> [frames |-> MaxFrames + 2, encoder_may_fail |-> FALSE,
                calls |-> MaxCalls],
       overflow_checks |-> FALSE] }

Exited(pc) == pc \in {"done", "panicked"}

\* The pipeline keeps a Receiver<Frame> of its own: the channel never
\* disconnects while the pipeline lives.
CaptureReceiverKept == FALSE

\* Every Receiver<Frame> is dropped: start_encoding_threads drops its own
\* and each encoder thread drops its clone when it ends.
CaptureReceiversGone == \A t \in EncoderIds : enc[t].pc = "idle" \/ Exited(enc[t].pc)

\* The Receiver<Vec<u8>> is dropped: the output thread has ended.
EncodeReceiverGone == Exited(outp)

\* StreamingPipeline::new.
PipeInit ==
    /\ \E s \in PipeScenarios :
         pcfg = s.pcfg /\ env = s.env /\ overflow_checks = s.overflow_checks
    /\ running = FALSE
    /\ spawned = FALSE
    /\ frame_counter = 0
    /\ capture_q = <<>>
    /\ encode_q = <<>>
    /\ streaming = [frames_encoded |-> 0, frames_dropped |-> 0, bytes_encoded |-> 0]
    /\ cap = [t \in CaptureIds |-> [pc |-> "idle", frame |-> NoFrame]]
    /\ enc = [t \in EncoderIds |->
                [pc |-> "idle", frame |-> NoFrame, cfg |-> Nil, data |-> NoFrame]]
    /\ outp = "idle"
    /\ statp = "idle"
    /\ delivered = <<>>
    /\ hist = [popped |-> 0, dropped |-> {}, failed |-> {}, panicked |-> {},
               at_stop |-> Nil, late_encodes |-> {}, late_callbacks |-> <<>>]
    /\ calls = 0
    /\ last_call = [op |-> "new", ok |-> TRUE]

PipeIdle ==
    /\ pcfg = Nil /\ env = Nil /\ running = FALSE /\ spawned = FALSE
    /\ frame_counter = 0 /\ capture_q = <<>> /\ encode_q = <<>>
    /\ streaming = Nil /\ cap = Nil /\ enc = Nil /\ outp = "idle"
    /\ statp = "idle" /\ delivered = <<>> /\ hist = Nil /\ calls = 0
    /\ last_call = Nil

\* start() on a stopped pipeline: set the flag, create the channels, spawn.
\* One run per pipeline is modelled: start() after stop() is left out.
StartOk ==
    /\ calls < env.calls
    /\ ~running
    /\ ~spawned
    /\ running' = TRUE
    /\ spawned' = TRUE
    /\ capture_q' = <<>>
    /\ encode_q' = <<>>
    /\ cap' = [t \in CaptureIds |->
                 IF t <= pcfg.capture_threads
                 THEN [pc |-> "loop", frame |-> NoFrame] ELSE cap[t]]
    /\ enc' = [t \in EncoderIds |->
                 IF t <= pcfg.encoding_threads
                 THEN [pc |-> "loop", frame |-> NoFrame,
                       cfg |-> pcfg.webp_config, data |-> NoFrame]
                 ELSE enc[t]]
    /\ outp' = "loop"
    /\ statp' = "loop"
    /\ calls' = calls + 1
    /\ last_call' = [op |-> "start", ok |-> TRUE]
    /\ UNCHANGED <<pcfg, env, frame_counter, streaming, delivered, hist>>
    /\ PipeFrame

\* start() without the running check: a second start() replaces the
\* channels, spawns the threads again and returns Ok.
StartUnguarded ==
    /\ calls < env.calls
    /\ running
    /\ capture_q' = <<>>
    /\ encode_q' = <<>>
    /\ cap' = [t \in CaptureIds |->
                 IF t <= pcfg.capture_threads
                 THEN [pc |-> "loop", frame |-> NoFrame] ELSE cap[t]]
    /\ enc' = [t \in EncoderIds |->
                 IF t <= pcfg.encoding_threads
                 THEN [pc |-> "loop", frame |-> NoFrame,
                       cfg |-> pcfg.webp_config, data |-> NoFrame]
                 ELSE enc[t]]
    /\ outp' = "loop"
    /\ statp' = "loop"
    /\ calls' = calls + 1
    /\ last_call' = [op |-> "start", ok |-> TRUE]
    /\ UNCHANGED <<pcfg, env, running, spawned, frame_counter, streaming,
                   delivered, hist>>
    /\ PipeFrame

\* start() on a running pipeline: the "already running" error.
StartRejected ==
    /\ calls < env.calls
    /\ running
    /\ calls' = calls + 1
    /\ last_call' = [op |-> "start", ok |-> FALSE]
    /\ UNCHANGED <<pcfg, env, running, spawned, frame_counter, capture_q, encode_q,
                   streaming, cap, enc, outp, statp, delivered, hist>>
    /\ PipeFrame

\* stop().
Stop ==
    /\ calls < env.calls
    /\ running' = FALSE
    /\ calls' = calls + 1
    /\ last_call' = [op |-> "stop", ok |-> TRUE]
    /\ hist' = IF spawned
               THEN [hist EXCEPT !.at_stop = [capture_q |-> capture_q,
                                              encode_q |-> encode_q]]
               ELSE hist
    /\ UNCHANGED <<pcfg, env, spawned, frame_counter, capture_q, encode_q,
                   streaming, cap, enc, outp, statp, delivered>>
    /\ PipeFrame

\* ---- a capture thread, lines 186-225 ----

\* while running.load()
CaptureLoop(t) ==
    /\ cap[t].pc = "loop"
    /\ cap' = [cap EXCEPT ![t].pc = IF running THEN "capture" ELSE "done"]
    /\ UNCHANGED <<pcfg, env, running, spawned, frame_counter, capture_q, encode_q,
                   streaming, enc, outp, statp, delivered, hist, calls, last_call>>
    /\ PipeFrame

\* The capture succeeds: the frame takes the next id.
CaptureOk(t) ==
    /\ cap[t].pc = "capture"
    /\ frame_counter < env.frames
    /\ cap' = [cap EXCEPT ![t] = [pc |-> "send", frame |-> frame_counter]]
    /\ frame_counter' = frame_counter + 1
    /\ UNCHANGED <<pcfg, env, running, spawned, capture_q, encode_q,
                   streaming, enc, outp, statp, delivered, hist, calls, last_call>>
    /\ PipeFrame

\* The capture fails: nothing is sent, the thread sleeps to its next tick.
CaptureErr(t) ==
    /\ cap[t].pc = "capture"
    /\ cap' = [cap EXCEPT ![t].pc = "loop"]
    /\ UNCHANGED <<pcfg, env, running, spawned, frame_counter, capture_q, encode_q,
                   streaming, enc, outp, statp, delivered, hist, calls, last_call>>
    /\ PipeFrame

\* tx.send(frame) on a channel without a capacity: it never waits.
CaptureSendUnbounded(t) ==
    /\ cap[t].pc = "send"
    /\ ~CaptureReceiversGone
    /\ capture_q' = Append(capture_q, cap[t].frame)
    /\ cap' = [cap EXCEPT ![t] = [pc |-> "loop", frame |-> NoFrame]]
    /\ UNCHANGED <<pcfg, env, running, spawned, frame_counter, encode_q,
                   streaming, enc, outp, statp, delivered, hist, calls, last_call>>
    /\ PipeFrame

\* tx.send(frame) returns Ok: there was room, or room was made.
CaptureSend(t) ==
    /\ cap[t].pc = "send"
    /\ ~CaptureReceiversGone
    /\ Len(capture_q) < pcfg.buffer_size
    /\ capture_q' = Append(capture_q, cap[t].frame)
    /\ cap' = [cap EXCEPT ![t] = [pc |-> "loop", frame |-> NoFrame]]
    /\ UNCHANGED <<pcfg, env, running, spawned, frame_counter, encode_q,
                   streaming, enc, outp, statp, delivered, hist, calls, last_call>>
    /\ PipeFrame

\* tx.send(frame) returns Err: every receiver is gone; the thread breaks.
CaptureSendDisconnected(t) ==
    /\ cap[t].pc = "send"
    /\ CaptureReceiversGone
    /\ cap' = [cap EXCEPT ![t] = [pc |-> "done", frame |-> NoFrame]]
    /\ UNCHANGED <<pcfg, env, running, spawned, frame_counter, capture_q, encode_q,
                   streaming, enc, outp, statp, delivered, hist, calls, last_call>>
    /\ PipeFrame

\* ---- an encoder thread, lines 240-293 ----

\* while running.load()
EncLoop(t) ==
    /\ enc[t].pc = "loop"
    /\ enc' = [enc EXCEPT ![t].pc = IF running THEN "recv" ELSE "done"]
    /\ UNCHANGED <<pcfg, env, running, spawned, frame_counter, capture_q, encode_q,
                   streaming, cap, outp, statp, delivered, hist, calls, last_call>>
    /\ PipeFrame

\* rx.recv_timeout gives a frame.
EncRecv(t) ==
    /\ enc[t].pc = "recv"
    /\ capture_q # <<>>
    /\ enc' = [enc EXCEPT ![t].pc = "check", ![t].frame = Head(capture_q)]
    /\ capture_q' = Tail(capture_q)
    /\ hist' = [hist EXCEPT !.popped = @ + 1]
    /\ UNCHANGED <<pcfg, env, running, spawned, frame_counter, encode_q,
                   streaming, cap, outp, statp, delivered, calls, last_call>>
    /\ PipeFrame

\* rx.recv_timeout gives Err (timeout, or no sender left): continue.
EncRecvTimeout(t) ==
    /\ enc[t].pc = "recv"
    /\ capture_q = <<>>
    /\ enc' = [enc EXCEPT ![t].pc = "loop"]
    /\ UNCHANGED <<pcfg, env, running, spawned, frame_counter, capture_q, encode_q,
                   streaming, cap, outp, statp, delivered, hist, calls, last_call>>
    /\ PipeFrame

\* The drop check of line 254.
ShouldDrop(allow_frame_drop, backlog) ==
    allow_frame_drop /\ backlog > DropThreshold

\* The frame is dropped: frames_dropped += 1, continue.
EncDrop(t) ==
    /\ enc[t].pc = "check"
    /\ ShouldDrop(pcfg.allow_frame_drop, Len(capture_q))
    /\ streaming' = [streaming EXCEPT !.frames_dropped = @ + 1]
    /\ enc' = [enc EXCEPT ![t].pc = "loop", ![t].frame = NoFrame]
    /\ hist' = [hist EXCEPT !.dropped = @ \cup {enc[t].frame}]
    /\ UNCHANGED <<pcfg, env, running, spawned, frame_counter, capture_q, encode_q,
                   cap, outp, statp, delivered, calls, last_call>>
    /\ PipeFrame

\* The frame is kept.
EncKeep(t) ==
    /\ enc[t].pc = "check"
    /\ ~ShouldDrop(pcfg.allow_frame_drop, Len(capture_q))
    /\ enc' = [enc EXCEPT ![t].pc = IF pcfg.adaptive_quality THEN "adjust" ELSE "encode"]
    /\ UNCHANGED <<pcfg, env, running, spawned, frame_counter, capture_q, encode_q,
                   streaming, cap, outp, statp, delivered, hist, calls, last_call>>
    /\ PipeFrame

\* current_config = adjust_quality(current_config, capture_duration, rx.len())
EncAdjust(t) ==
    /\ enc[t].pc = "adjust"
    /\ \E d \in FrameDurations :
         LET r == adjust_quality(enc[t].cfg, d, Len(capture_q), overflow_checks)
         IN  /\ r # Panic
             /\ enc' = [enc EXCEPT ![t].pc = "encode", ![t].cfg = r]
    /\ UNCHANGED <<pcfg, env, running, spawned, frame_counter, capture_q, encode_q,
                   streaming, cap, outp, statp, delivered, hist, calls, last_call>>
    /\ PipeFrame

\* adjust_quality panics: the thread unwinds with the frame it holds.
EncAdjustPanic(t) ==
    /\ enc[t].pc = "adjust"
    /\ \E d \in FrameDurations :
         adjust_quality(enc[t].cfg, d, Len(capture_q), overflow_checks) = Panic
    /\ enc' = [enc EXCEPT ![t].pc = "panicked", ![t].frame = NoFrame]
    /\ hist' = [hist EXCEPT !.panicked = @ \cup {enc[t].frame}]
    /\ UNCHANGED <<pcfg, env, running, spawned, frame_counter, capture_q, encode_q,
                   streaming, cap, outp, statp, delivered, calls, last_call>>
    /\ PipeFrame

\* encoder.encode gives Ok: the stats are updated, the payload is to send.
EncEncodeOk(t) ==
    /\ enc[t].pc = "encode"
    /\ streaming' = [streaming EXCEPT !.frames_encoded = @ + 1,
                                      !.bytes_encoded = @ + WebPLen(enc[t].frame)]
    /\ enc' = [enc EXCEPT ![t].pc = "send", ![t].data = enc[t].frame,
                          ![t].frame = NoFrame]
    /\ hist' = IF running THEN hist
               ELSE [hist EXCEPT !.late_encodes = @ \cup {<<t, enc[t].frame>>}]
    /\ UNCHANGED <<pcfg, env, running, spawned, frame_counter, capture_q, encode_q,
                   cap, outp, statp, delivered, calls, last_call>>
    /\ PipeFrame

\* encoder.encode gives Err and the thread leaves its loop.
EncEncodeErrBreaks(t) ==
    /\ enc[t].pc = "encode"
    /\ env.encoder_may_fail
    /\ enc' = [enc EXCEPT ![t].pc = "done", ![t].frame = NoFrame]
    /\ hist' = [hist EXCEPT !.failed = @ \cup {enc[t].frame}]
    /\ UNCHANGED <<pcfg, env, running, spawned, frame_counter, capture_q, encode_q,
                   streaming, cap, outp, statp, delivered, calls, last_call>>
    /\ PipeFrame

\* encoder.encode gives Err: logged, the loop goes on.
EncEncodeErr(t) ==
    /\ enc[t].pc = "encode"
    /\ env.encoder_may_fail
    /\ enc' = [enc EXCEPT ![t].pc = "loop", ![t].frame = NoFrame]
    /\ hist' = [hist EXCEPT !.failed = @ \cup {enc[t].frame}]
    /\ UNCHANGED <<pcfg, env, running, spawned, frame_counter, capture_q, encode_q,
                   streaming, cap, outp, statp, delivered, calls, last_call>>
    /\ PipeFrame

\* tx.send(webp_data) returns Ok.
EncSend(t) ==
    /\ enc[t].pc = "send"
    /\ ~EncodeReceiverGone
    /\ Len(encode_q) < pcfg.buffer_size
    /\ encode_q' = Append(encode_q, enc[t].data)
    /\ enc' = [enc EXCEPT ![t].pc = "loop", ![t].data = NoFrame]
    /\ UNCHANGED <<pcfg, env, running, spawned, frame_counter, capture_q,
                   streaming, cap, outp, statp, delivered, hist, calls, last_call>>
    /\ PipeFrame

\* tx.send(webp_data) returns Err: the output thread is gone; break.
EncSendDisconnected(t) ==
    /\ enc[t].pc = "send"
    /\ EncodeReceiverGone
    /\ enc' = [enc EXCEPT ![t].pc = "done", ![t].data = NoFrame]
    /\ UNCHANGED <<pcfg, env, running, spawned, frame_counter, capture_q, encode_q,
                   streaming, cap, outp, statp, delivered, hist, calls, last_call>>
    /\ PipeFrame

\* ---- the output thread, lines 304-311 ----

\* The output thread never reading the running flag.
OutLoopIgnoresStop ==
    /\ outp = "loop"
    /\ outp' = "recv"
    /\ UNCHANGED <<pcfg, env, running, spawned, frame_counter, capture_q, encode_q,
                   streaming, cap, enc, statp, delivered, hist, calls, last_call>>
    /\ PipeFrame

OutLoop ==
    /\ outp = "loop"
    /\ outp' = IF running THEN "recv" ELSE "done"
    /\ UNCHANGED <<pcfg, env, running, spawned, frame_counter, capture_q, encode_q,
                   streaming, cap, enc, statp, delivered, hist, calls, last_call>>
    /\ PipeFrame

\* The output thread taking the newest payload instead of the oldest.
OutRecvNewest ==
    /\ outp = "recv"
    /\ encode_q # <<>>
    /\ delivered' = Append(delivered, encode_q[Len(encode_q)])
    /\ encode_q' = SubSeq(encode_q, 1, Len(encode_q) - 1)
    /\ outp' = "loop"
    /\ UNCHANGED <<pcfg, env, running, spawned, frame_counter, capture_q,
                   streaming, cap, enc, statp, hist, calls, last_call>>
    /\ PipeFrame

\* rx.recv_timeout gives a payload: callback(data).
OutRecv ==
    /\ outp = "recv"
    /\ encode_q # <<>>
    /\ delivered' = Append(delivered, Head(encode_q))
    /\ encode_q' = Tail(encode_q)
    /\ outp' = "loop"
    /\ hist' = IF running THEN hist
               ELSE [hist EXCEPT !.late_callbacks = Append(@, Head(encode_q))]
    /\ UNCHANGED <<pcfg, env, running, spawned, frame_counter, capture_q,
                   streaming, cap, enc, statp, calls, last_call>>
    /\ PipeFrame

OutRecvTimeout ==
    /\ outp = "recv"
    /\ encode_q = <<>>
    /\ outp' = "loop"
    /\ UNCHANGED <<pcfg, env, running, spawned, frame_counter, capture_q, encode_q,
                   streaming, cap, enc, statp, delivered, hist, calls, last_call>>
    /\ PipeFrame

\* ---- the stats thread, lines 320-357 ----

StatsLoop ==
    /\ statp = "loop"
    /\ statp' = IF running THEN "sleep" ELSE "done"
    /\ UNCHANGED <<pcfg, env, running, spawned, frame_counter, capture_q, encode_q,
                   streaming, cap, enc, outp, delivered, hist, calls, last_call>>
    /\ PipeFrame

\* The one-second sleep and the sample after it.
StatsSample ==
    /\ statp = "sleep"
    /\ statp' = "loop"
    /\ UNCHANGED <<pcfg, env, running, spawned, frame_counter, capture_q, encode_q,
                   streaming, cap, enc, outp, delivered, hist, calls, last_call>>
    /\ PipeFrame

CaptureStep(t) ==
    \/ CaptureLoop(t)
    \/ CaptureOk(t)
    \/ CaptureErr(t)
    \/ CaptureSend(t)
    \/ CaptureSendDisconnected(t)

EncoderStep(t) ==
    \/ EncLoop(t)
    \/ EncRecv(t)
    \/ EncRecvTimeout(t)
    \/ EncDrop(t)
    \/ EncKeep(t)
    \/ EncAdjust(t)
    \/ EncAdjustPanic(t)
    \/ EncEncodeOk(t)
    \/ EncEncodeErr(t)
    \/ EncSend(t)
    \/ EncSendDisconnected(t)

OutputStep == OutLoop \/ OutRecv \/ OutRecvTimeout

StatsStep == StatsLoop \/ StatsSample

PipeNext ==
    \/ StartOk
    \/ StartRejected
    \/ Stop
    \/ \E t \in CaptureIds : CaptureStep(t)
    \/ \E t \in EncoderIds : EncoderStep(t)
    \/ OutputStep
    \/ StatsStep

\* Every thread start() spawned has ended.
AllThreadsExited ==
    /\ spawned
    /\ \A t \in CaptureIds : t <= pcfg.capture_threads => Exited(cap[t].pc)
    /\ \A t \in EncoderIds : t <= pcfg.encoding_threads => Exited(enc[t].pc)
    /\ Exited(outp)
    /\ Exited(statp)

\* The scheduler runs every thread that can take a step.
PipeFairness ==
    /\ \A t \in CaptureIds : WF_vars(CaptureStep(t))
    /\ \A t \in EncoderIds : WF_vars(EncoderStep(t))
    /\ WF_vars(OutputStep)
    /\ WF_vars(StatsStep)

(***************************************************************************)
(* SimdConverter (src/encoder/simd.rs)                                     *)
(*                                                                         *)
(* A buffer is a sequence of bytes.  The conversions move bytes and never  *)
(* look at their values, so an input whose bytes name their positions      *)
(* shows where every output byte came from.  The block sizes are the       *)
(* code's: 32 and 16 bytes, 16 and 8 pixels, 64 bytes for one              *)
(* vld4q_u8/vst4q_u8 pair.                                                 *)
(***************************************************************************)
MaxBufLen == 68      \* longest buffer passed to a conversion
MaxSimdCalls == 2    \* conversions made on one buffer

ByteModulus == 256
Lane == 16           \* bytes in one 128-bit lane
Avx2Block == 32      \* bytes in one __m256i
NeonStep == 16       \* the step of the NEON loop
Vld4Bytes == 64      \* bytes one vld4q_u8 or vst4q_u8 touches
BgrBlockPixels == 16 \* pixels in one block of convert_bgr_to_rgb_avx2
RgbaBlockPixels == 8 \* pixels in one block of convert_rgba_to_rgb_avx2

\* A byte of the memory that lies past the end of a buffer.
Wild == -1

\* SimdConverter::new(): the target and what feature detection found.
Converters ==
    {c \in [arch : {"x86_64", "aarch64", "other"},
            has_avx2 : BOOLEAN, has_sse41 : BOOLEAN,
            has_ssse3 : BOOLEAN, has_neon : BOOLEAN] :
        /\ c.arch # "x86_64" => ~c.has_avx2 /\ ~c.has_sse41 /\ ~c.has_ssse3
        /\ c.has_neon <=> c.arch = "aarch64"}

\* The shuffle mask of lines 85 and 110, one lane of it.
ShuffleMask == <<2, 1, 0, 3, 6, 5, 4, 7, 10, 9, 8, 11, 14, 13, 12, 15>>

\* What a conversion gives: the buffer it wrote, or how it failed.
Done(data) == [status |-> "ok", data |-> data]
IndexPanic == [status |-> "panic"]
OutOfBounds == [status |-> "out_of_bounds"]

\* for chunk in data[start..].chunks_exact_mut(stride) { chunk.swap(0, 2) }
swap_chunks(data, start, stride) ==
    LET n == (Len(data) - start) \div stride
    IN  [p \in 1..Len(data) |->
            LET k == p - 1 - start
            IN  IF k < 0 \/ k >= n * stride THEN data[p]
                ELSE IF k % stride = 0 THEN data[p + 2]
                ELSE IF k % stride = 2 THEN data[p - 2]
                ELSE data[p]]

\* _mm_shuffle_epi8 / _mm256_shuffle_epi8 with ShuffleMask on every lane of
\* data[0..simd_len]: byte j of a lane becomes byte ShuffleMask[j] of it.
shuffle_blocks(data, simd_len) ==
    [p \in 1..Len(data) |->
        IF p - 1 >= simd_len THEN data[p]
        ELSE LET base == ((p - 1) \div Lane) * Lane
             IN  data[base + ShuffleMask[((p - 1) % Lane) + 1] + 1]]

convert_bgra_to_rgba_scalar(data) == swap_chunks(data, 0, 4)

convert_bgra_to_rgba_avx2(data) ==
    LET simd_len == Len(data) - (Len(data) % Avx2Block)
    IN  swap_chunks(shuffle_blocks(data, simd_len), simd_len, 4)

convert_bgra_to_rgba_ssse3(data) ==
    LET simd_len == Len(data) - (Len(data) % Lane)
    IN  swap_chunks(shuffle_blocks(data, simd_len), simd_len, 4)

\* One iteration of the NEON loop at byte offset i of memory mem:
\* vld4q_u8 reads 64 bytes as 16 pixels of 4 channels, channels 0 and 2
\* change places, vst4q_u8 writes the 64 bytes back.
neon_step(mem, i) ==
    [p \in 1..Len(mem) |->
        LET o == p - 1 - i
        IN  IF o < 0 \/ o >= Vld4Bytes THEN mem[p]
            ELSE IF o % 4 = 0 THEN mem[p + 2]
            ELSE IF o % 4 = 2 THEN mem[p - 2]
            ELSE mem[p]]

RECURSIVE neon_loop(_, _, _)
neon_loop(mem, i, simd_len) ==
    IF i >= simd_len THEN mem
    ELSE neon_loop(neon_step(mem, i), i + NeonStep, simd_len)

\* convert_bgra_to_rgba_neon on the buffer and the memory behind it: the
\* bytes the buffer holds afterwards if the accesses past its end go
\* through, and whether there were such accesses.
convert_bgra_to_rgba_neon(data) ==
    LET len == Len(data)
        simd_len == len - (len % NeonStep)
        mem == data \o [j \in 1..Vld4Bytes |-> Wild]
        out == SubSeq(neon_loop(mem, 0, simd_len), 1, len)
    IN  [in_bounds |-> simd_len = 0 \/ (simd_len - NeonStep) + Vld4Bytes <= len,
         data |-> swap_chunks(out, simd_len, 4)]

\* convert_bgra_to_rgba: the outcomes the call can have.  An access past
\* the end of the buffer is undefined behaviour: the call may fault, or go
\* through and leave the bytes computed above.
convert_bgra_to_rgba(conv, data) ==
    IF conv.arch = "x86_64"
    THEN IF conv.has_avx2 THEN {Done(convert_bgra_to_rgba_avx2(data))}
         ELSE IF conv.has_ssse3 THEN {Done(convert_bgra_to_rgba_ssse3(data))}
         ELSE {Done(convert_bgra_to_rgba_scalar(data))}
    ELSE IF conv.arch = "aarch64"
    THEN IF conv.has_neon
         THEN LET r == convert_bgra_to_rgba_neon(data)
              IN  IF r.in_bounds THEN {Done(r.data)}
                  ELSE {OutOfBounds, Done(r.data)}
         ELSE {Done(convert_bgra_to_rgba_scalar(data))}
    ELSE {Done(convert_bgra_to_rgba_scalar(data))}

convert_bgr_to_rgb_scalar(data) == swap_chunks(data, 0, 3)

\* convert_bgr_to_rgb_avx2: blocks of 16 pixels swapped pixel by pixel,
\* then for i in (simd_pixels * 3..len).step_by(3), a swap if i + 2 < len.
\* The two loads of a block stay inside the buffer.
convert_bgr_to_rgb_avx2(data) ==
    LET len == Len(data)
        pixels == len \div 3
        simd_pixels == pixels - (pixels % BgrBlockPixels)
    IN  [p \in 1..len |->
            LET i == ((p - 1) \div 3) * 3
                swapped == i \div 3 < simd_pixels \/ i + 2 < len
            IN  IF ~swapped THEN data[p]
                ELSE IF p - 1 = i THEN data[p + 2]
                ELSE IF p - 1 = i + 2 THEN data[p - 2]
                ELSE data[p]]

convert_bgr_to_rgb_ssse3(data) == convert_bgr_to_rgb_scalar(data)

convert_bgr_to_rgb(conv, data) ==
    IF conv.arch = "x86_64"
    THEN IF conv.has_avx2 THEN {Done(convert_bgr_to_rgb_avx2(data))}
         ELSE IF conv.has_ssse3 THEN {Done(convert_bgr_to_rgb_ssse3(data))}
         ELSE {Done(convert_bgr_to_rgb_scalar(data))}
    ELSE {Done(convert_bgr_to_rgb_scalar(data))}

\* n times: dst[dst_idx..dst_idx + 3] = src[src_idx..src_idx + 3], then
\* src_idx += 4 and dst_idx += 3.  Indexing dst is bounds-checked.
RECURSIVE copy_pixels(_, _, _, _, _)
copy_pixels(src, dst, src_idx, dst_idx, n) ==
    IF n = 0 THEN [status |-> "ok", data |-> dst, src_idx |-> src_idx, dst_idx |-> dst_idx]
    ELSE IF dst_idx + 2 >= Len(dst) THEN IndexPanic
    ELSE copy_pixels(src,
                     [dst EXCEPT ![dst_idx + 1] = src[src_idx + 1],
                                 ![dst_idx + 2] = src[src_idx + 2],
                                 ![dst_idx + 3] = src[src_idx + 3]],
                     src_idx + 4, dst_idx + 3, n - 1)

\* for chunk in src.chunks_exact(4): one pixel copied per chunk.
convert_rgba_to_rgb_scalar(src, dst) ==
    LET r == copy_pixels(src, dst, 0, 0, Len(src) \div 4)
    IN  IF r.status = "ok" THEN Done(r.data) ELSE r

\* while src_idx + 3 < src_len: one pixel copied per turn.
RECURSIVE rgba_remaining(_, _, _, _)
rgba_remaining(src, dst, src_idx, dst_idx) ==
    IF src_idx + 3 < Len(src)
    THEN LET r == copy_pixels(src, dst, src_idx, dst_idx, 1)
         IN  IF r.status = "ok"
             THEN rgba_remaining(src, r.data, r.src_idx, r.dst_idx)
             ELSE r
    ELSE Done(dst)

\* The AVX2 path whose remaining-pixels loop runs while
\* src_idx + 4 < src_len: it stops before the last pixel of a source that
\* ends on a pixel boundary.
convert_rgba_to_rgb_avx2_short(src, dst) ==
    LET pixels == Len(src) \div 4
        simd_pixels == pixels - (pixels % RgbaBlockPixels)
        copied == IF Len(src) % 4 = 0 /\ pixels > simd_pixels
                  THEN pixels - 1 ELSE pixels
        r == copy_pixels(src, dst, 0, 0, copied)
    IN  IF r.status = "ok" THEN Done(r.data) ELSE r

\* convert_rgba_to_rgb_avx2: simd_pixels / 8 blocks of 8 pixels copied
\* pixel by pixel (the load of a block stays inside src), then the
\* remaining pixels.
convert_rgba_to_rgb_avx2(src, dst) ==
    LET pixels == Len(src) \div 4
        simd_pixels == pixels - (pixels % RgbaBlockPixels)
        blocks == copy_pixels(src, dst, 0, 0, (simd_pixels \div RgbaBlockPixels) * RgbaBlockPixels)
    IN  IF blocks.status # "ok" THEN blocks
        ELSE rgba_remaining(src, blocks.data, blocks.src_idx, blocks.dst_idx)

convert_rgba_to_rgb_sse41(src, dst) == convert_rgba_to_rgb_scalar(src, dst)

convert_rgba_to_rgb(conv, src, dst) ==
    IF conv.arch = "x86_64"
    THEN IF conv.has_avx2 THEN {convert_rgba_to_rgb_avx2(src, dst)}
         ELSE IF conv.has_sse41 THEN {convert_rgba_to_rgb_sse41(src, dst)}
         ELSE {convert_rgba_to_rgb_scalar(src, dst)}
    ELSE {convert_rgba_to_rgb_scalar(src, dst)}

\* The buffers handed in: byte p of data is its position plus seed, byte p
\* of dst counts down, so that no copied byte equals the byte it replaces by
\* accident of the pattern alone.
Seeds == {0, 250}
PatternUp(len, seed) == [p \in 1..len |-> (p - 1 + seed) % ByteModulus]
PatternDown(len) == [p \in 1..len |-> (ByteModulus - 1) - ((p - 1) % ByteModulus)]

\* Destination lengths tried with a source of length len: empty, one byte
\* short, exact, one byte over.
DstLens(len) ==
    LET need == 3 * (len \div 4)
    IN  {n \in {0, need - 1, need, need + 1} : n >= 0}

SimdInit ==
    /\ converter \in Converters
    /\ \E len \in 0..MaxBufLen : \E seed \in Seeds : \E dlen \in DstLens(len) :
           simd_in = [data |-> PatternUp(len, seed), dst |-> PatternDown(dlen)]
    /\ simd_data = simd_in.data
    /\ simd_dst = simd_in.dst
    /\ simd_log = <<>>

SimdIdle ==
    /\ converter = Nil /\ simd_in = Nil /\ simd_data = <<>> /\ simd_dst = <<>>
    /\ simd_log = <<>>

\* A conversion can be called: the caller is still there and has calls left.
CanConvert ==
    /\ Len(simd_log) < MaxSimdCalls
    /\ \A i \in 1..Len(simd_log) : simd_log[i].status = "ok"

\* converter.convert_bgra_to_rgba(&mut data)
ConvertBgraToRgba ==
    /\ CanConvert
    /\ \E r \in convert_bgra_to_rgba(converter, simd_data) :
           /\ simd_data' = IF r.status = "ok" THEN r.data ELSE simd_data
           /\ simd_log' = Append(simd_log,
                  [op |-> "convert_bgra_to_rgba", status |-> r.status,
                   data_in |-> simd_data, dst_in |-> simd_dst,
                   data_out |-> simd_data', dst_out |-> simd_dst])
    /\ UNCHANGED <<converter, simd_in, simd_dst>>
    /\ SimdFrame

\* converter.convert_bgr_to_rgb(&mut data)
ConvertBgrToRgb ==
    /\ CanConvert
    /\ \E r \in convert_bgr_to_rgb(converter, simd_data) :
           /\ simd_data' = IF r.status = "ok" THEN r.data ELSE simd_data
           /\ simd_log' = Append(simd_log,
                  [op |-> "convert_bgr_to_rgb", status |-> r.status,
                   data_in |-> simd_data, dst_in |-> simd_dst,
                   data_out |-> simd_data', dst_out |-> simd_dst])
    /\ UNCHANGED <<converter, simd_in, simd_dst>>
    /\ SimdFrame

\* converter.convert_rgba_to_rgb(&data, &mut dst).  What dst holds after a
\* panic is not kept: the caller does not get to read it.
ConvertRgbaToRgb ==
    /\ CanConvert
    /\ \E r \in convert_rgba_to_rgb(converter, simd_data, simd_dst) :
           /\ simd_dst' = IF r.status = "ok" THEN r.data ELSE simd_dst
           /\ simd_log' = Append(simd_log,
                  [op |-> "convert_rgba_to_rgb", status |-> r.status,
                   data_in |-> simd_data, dst_in |-> simd_dst,
                   data_out |-> simd_data, dst_out |-> simd_dst'])
    /\ UNCHANGED <<converter, simd_in, simd_data>>
    /\ SimdFrame

SimdNext ==
    \/ ConvertBgraToRgba
    \/ ConvertBgrToRgb
    \/ ConvertRgbaToRgb

(***************************************************************************)
(* MemoryPool shared by several threads (src/memory_pool.rs)               *)
(*                                                                         *)
(* The same pool as above, its methods cut where another thread can run:   *)
(* at the mutex (parking_lot::Mutex, lines 179, 201, 305) and between two  *)
(* atomic operations made without it.  What a method does while it holds   *)
(* the mutex is one step.  The clock stands still.                         *)
(***************************************************************************)
MaxThreads == 2      \* threads sharing the pool
MaxThreadOps == 2    \* pool calls one thread makes

PoolThreads == 1..MaxThreads

\* Holders of the mutex that are not one of the threads: nobody, and the
\* caller of with_config.
Unlocked == -1
Constructor == 0

\* The configurations: an idle list that keeps nothing or one entry, a cap
\* that two buffers can exceed, with and without pre-allocation.
ThreadPoolConfigs ==
    [max_buffers : {0, 1},
     max_memory : {MaxSize + 1},
     buffer_timeout : {1},
     preallocate : BOOLEAN,
     default_buffer_size : {2}]

\* One allocation or growth of a buffer: where, and whether the mutex was
\* held by the thread that made it.
Allocation(site, locked) == [site |-> site, locked |-> locked]

ThreadAtRest == [pc |-> "idle", size |-> 0, current_memory |-> 0, held |-> <<>>, ops |-> 0]

\* Which Vec<u8> an idle entry or a handle owns: every buffer carries an id
\* from its allocation on.  A new buffer gets the least id no idle entry
\* and no handle has.
IdleBufferIds == {buffers[i].id : i \in 1..Len(buffers)}
HeldBufferIds(t) == {thr[t].held[i].id : i \in 1..Len(thr[t].held)}
LiveBufferIds == IdleBufferIds \cup UNION {HeldBufferIds(t) : t \in PoolThreads}
FreshBufferId ==
    CHOOSE i \in 1..(Cardinality(LiveBufferIds) + 1) :
        /\ i \notin LiveBufferIds
        /\ \A j \in 1..(i - 1) : j \in LiveBufferIds
IdleEntry(entry, id) ==
    [buffer |-> entry.buffer, size |-> entry.size, last_used |-> entry.last_used,
     id |-> id]
Handle(buf, id) == [data |-> buf.data, size |-> buf.size, pool |-> buf.pool, id |-> id]

\* with_config up to line 168: the pool exists, nothing is pre-allocated yet.
PoolThreadsInit ==
    /\ config \in ThreadPoolConfigs
    /\ buffers = <<>>
    /\ stats = [total_buffers_created |-> 0,
                memory_reuse_count |-> 0,
                peak_memory_usage |-> 0,
                current_memory_usage |-> 0,
                buffer_hits |-> 0,
                buffer_misses |-> 0]
    /\ now = 0 /\ held = <<>> /\ last = Nil /\ ops = 0
    /\ pool_pc = "with_config"
    /\ lock = Unlocked
    /\ thr = [t \in PoolThreads |-> ThreadAtRest]
    /\ allocs = {}

PoolThreadsIdle ==
    /\ pool_pc = "idle" /\ lock = Unlocked /\ thr = Nil /\ allocs = {}

\* with_config, preallocate false: the pool is handed out as it is.
NewWithoutPreallocate ==
    /\ pool_pc = "with_config"
    /\ ~config.preallocate
    /\ pool_pc' = "shared"
    /\ UNCHANGED <<config, buffers, stats, lock, thr, allocs>>
    /\ PoolThreadsFrame

\* preallocate_buffers, line 179: self.inner.lock().
PreallocateLock ==
    /\ pool_pc = "with_config"
    /\ config.preallocate
    /\ lock = Unlocked
    /\ lock' = Constructor
    /\ pool_pc' = "preallocate"
    /\ UNCHANGED <<config, buffers, stats, thr, allocs>>
    /\ PoolThreadsFrame

\* preallocate_buffers, lines 183-189: one turn of the loop.
PreallocateBuffer ==
    /\ pool_pc = "preallocate"
    /\ Len(buffers) < Min(config.max_buffers, 4)
    /\ allocs' = allocs \cup {Allocation("preallocate_buffers", lock = Constructor)}
    /\ buffers' = Append(buffers,
                         IdleEntry(BufferEntry(config.default_buffer_size,
                                               config.default_buffer_size, now),
                                   FreshBufferId))
    /\ stats' = [stats EXCEPT !.total_buffers_created = @ + 1]
    /\ UNCHANGED <<config, pool_pc, lock, thr>>
    /\ PoolThreadsFrame

\* preallocate_buffers returns: the guard is dropped, the pool handed out.
PreallocateDone ==
    /\ pool_pc = "preallocate"
    /\ Len(buffers) >= Min(config.max_buffers, 4)
    /\ lock' = Unlocked
    /\ pool_pc' = "shared"
    /\ UNCHANGED <<config, buffers, stats, thr, allocs>>
    /\ PoolThreadsFrame

\* acquire(size), size > 0, up to line 201: the mutex is taken.
ThreadAcquireLock(t) ==
    \E size \in 1..MaxSize :
        /\ pool_pc = "shared"
        /\ thr[t].pc = "idle"
        /\ thr[t].ops < MaxThreadOps
        /\ lock = Unlocked
        /\ lock' = t
        /\ thr' = [thr EXCEPT ![t].pc = "locked", ![t].size = size, ![t].ops = @ + 1]
        /\ UNCHANGED <<config, buffers, stats, pool_pc, allocs>>
        /\ PoolThreadsFrame

\* The hit path handing out the entry and leaving it in the idle list.
ThreadAcquireHitKeepsEntry(t) ==
    LET live == cleanup_expired_buffers(buffers, now, config.buffer_timeout)
        index == find_suitable_buffer(live, thr[t].size)
    IN  /\ thr[t].pc = "locked"
        /\ index # 0
        /\ LET r == AcquireHit(stats, live[index], thr[t].size)
           IN  /\ stats' = r.stats
               /\ thr' = [thr EXCEPT ![t].pc = "idle",
                                     ![t].held = Append(@, Handle(r.buf,
                                                                  live[index].id))]
        /\ buffers' = live
        /\ lock' = Unlocked
        /\ UNCHANGED <<config, pool_pc, allocs>>
        /\ PoolThreadsFrame

\* acquire, lines 204-248: an idle entry suits; the handle is returned and
\* the guard dropped with it.
ThreadAcquireHit(t) ==
    LET live == cleanup_expired_buffers(buffers, now, config.buffer_timeout)
        index == find_suitable_buffer(live, thr[t].size)
    IN  /\ thr[t].pc = "locked"
        /\ index # 0
        /\ LET r == AcquireHit(stats, live[index], thr[t].size)
           IN  /\ stats' = r.stats
               /\ thr' = [thr EXCEPT ![t].pc = "idle",
                                     ![t].held = Append(@, Handle(r.buf,
                                                                  live[index].id))]
        /\ allocs' = IF live[index].buffer < thr[t].size
                     THEN allocs \cup {Allocation("resize", lock = t)}
                     ELSE allocs
        /\ buffers' = RemoveAt(live, index)
        /\ lock' = Unlocked
        /\ UNCHANGED <<config, pool_pc>>
        /\ PoolThreadsFrame

\* acquire, lines 204-251: no idle entry suits; drop(inner).
ThreadAcquireMiss(t) ==
    LET live == cleanup_expired_buffers(buffers, now, config.buffer_timeout)
    IN  /\ thr[t].pc = "locked"
        /\ find_suitable_buffer(live, thr[t].size) = 0
        /\ buffers' = live
        /\ lock' = Unlocked
        /\ thr' = [thr EXCEPT ![t].pc = "miss"]
        /\ UNCHANGED <<config, stats, pool_pc, allocs>>
        /\ PoolThreadsFrame

\* Lines 254 and 269: the miss is counted, current_memory_usage is loaded.
ThreadLoadCurrent(t) ==
    /\ thr[t].pc = "miss"
    /\ stats' = [stats EXCEPT !.buffer_misses = @ + 1]
    /\ thr' = [thr EXCEPT ![t].pc = "loaded",
                          ![t].current_memory = stats.current_memory_usage]
    /\ UNCHANGED <<config, buffers, pool_pc, lock, allocs>>
    /\ PoolThreadsFrame

\* allocate_new_buffer, lines 270-284: over the cap, an untracked buffer.
ThreadAllocateDirect(t) ==
    /\ thr[t].pc = "loaded"
    /\ PoolLimitReached(thr[t].current_memory, thr[t].size, config.max_memory)
    /\ allocs' = allocs \cup {Allocation("allocate_new_buffer", lock = t)}
    /\ thr' = [thr EXCEPT ![t].pc = "idle",
                          ![t].held = Append(@, [data |-> thr[t].size,
                                                 size |-> thr[t].size,
                                                 pool |-> FALSE,
                                                 id |-> FreshBufferId])]
    /\ UNCHANGED <<config, buffers, stats, pool_pc, lock>>
    /\ PoolThreadsFrame

\* allocate_new_buffer, lines 287-293: under the cap, the buffer is
\* allocated and added to current_memory_usage.
ThreadAllocateTracked(t) ==
    /\ thr[t].pc = "loaded"
    /\ ~PoolLimitReached(thr[t].current_memory, thr[t].size, config.max_memory)
    /\ allocs' = allocs \cup {Allocation("allocate_new_buffer", lock = t)}
    /\ stats' = [stats EXCEPT !.total_buffers_created = @ + 1,
                              !.current_memory_usage = @ + thr[t].size]
    /\ thr' = [thr EXCEPT ![t].pc = "added"]
    /\ UNCHANGED <<config, buffers, pool_pc, lock>>
    /\ PoolThreadsFrame

\* allocate_new_buffer, lines 294-300: update_peak_memory, the handle.
ThreadUpdatePeak(t) ==
    /\ thr[t].pc = "added"
    /\ stats' = update_peak_memory(stats)
    /\ thr' = [thr EXCEPT ![t].pc = "idle",
                          ![t].held = Append(@, [data |-> thr[t].size,
                                                 size |-> thr[t].size,
                                                 pool |-> TRUE,
                                                 id |-> FreshBufferId])]
    /\ UNCHANGED <<config, buffers, pool_pc, lock, allocs>>
    /\ PoolThreadsFrame

\* Drop for PooledBuffer: release_internal under the mutex for a tracked
\* handle, nothing for an untracked one.
ThreadDrop(t) ==
    \E i \in 1..Len(thr[t].held) :
        LET h == thr[t].held[i]
        IN  /\ thr[t].pc = "idle"
            /\ thr[t].ops < MaxThreadOps
            /\ IF h.pool
               THEN /\ lock = Unlocked
                    /\ LET r == release_internal(stats, buffers, h.data, h.size,
                                                 config, now)
                       IN  /\ stats' = r.stats
                           /\ buffers' =
                                IF Len(r.buffers) > Len(buffers)
                                THEN Append(buffers,
                                            IdleEntry(r.buffers[Len(r.buffers)],
                                                      h.id))
                                ELSE buffers
               ELSE UNCHANGED <<stats, buffers>>
            /\ thr' = [thr EXCEPT ![t].held = RemoveAt(@, i), ![t].ops = @ + 1]
            /\ UNCHANGED <<config, pool_pc, lock, allocs>>
            /\ PoolThreadsFrame

\* PooledBuffer::into_vec: one fetch_sub for a tracked handle, no mutex.
ThreadIntoVec(t) ==
    \E i \in 1..Len(thr[t].held) :
        LET h == thr[t].held[i]
        IN  /\ thr[t].pc = "idle"
            /\ thr[t].ops < MaxThreadOps
            /\ stats' = IF h.pool
                        THEN [stats EXCEPT !.current_memory_usage = @ - h.size]
                        ELSE stats
            /\ thr' = [thr EXCEPT ![t].held = RemoveAt(@, i), ![t].ops = @ + 1]
            /\ UNCHANGED <<config, buffers, pool_pc, lock, allocs>>
            /\ PoolThreadsFrame

\* clear(), lines 354-359: the idle list is emptied under the mutex.
ThreadClear(t) ==
    /\ pool_pc = "shared"
    /\ thr[t].pc = "idle"
    /\ thr[t].ops < MaxThreadOps
    /\ lock = Unlocked
    /\ buffers' = <<>>
    /\ thr' = [thr EXCEPT ![t].ops = @ + 1]
    /\ UNCHANGED <<config, stats, pool_pc, lock, allocs>>
    /\ PoolThreadsFrame

PoolThreadsNext ==
    \/ NewWithoutPreallocate
    \/ PreallocateLock
    \/ PreallocateBuffer
    \/ PreallocateDone
    \/ \E t \in PoolThreads : ThreadAcquireLock(t)
    \/ \E t \in PoolThreads : ThreadAcquireHit(t)
    \/ \E t \in PoolThreads : ThreadAcquireMiss(t)
    \/ \E t \in PoolThreads : ThreadLoadCurrent(t)
    \/ \E t \in PoolThreads : ThreadAllocateDirect(t)
    \/ \E t \in PoolThreads : ThreadAllocateTracked(t)
    \/ \E t \in PoolThreads : ThreadUpdatePeak(t)
    \/ \E t \in PoolThreads : ThreadDrop(t)
    \/ \E t \in PoolThreads : ThreadIntoVec(t)
    \/ \E t \in PoolThreads : ThreadClear(t)

(***************************************************************************)
(* StreamingPipeline: start() and stop() called more than once             *)
(* (src/pipeline/streaming.rs)                                             *)
(*                                                                         *)
(* The running flag and every thread start() spawns, over several calls    *)
(* of start() and stop() made by callers that share the pipeline           *)
(* (start and stop take &self).  start() is cut at its accesses to the     *)
(* flag: the load of line 132, the store of line 138, then the spawns.     *)
(* Of a thread only its loop condition is kept: a turn of its loop is the  *)
(* load of the flag and, if it read true, the body that follows.  The      *)
(* frames, channels and statistics are those of the model above and stay   *)
(* at rest here.                                                           *)
(***************************************************************************)
MaxLifeCalls == 3     \* start() and stop() calls made on the pipeline
MaxCallers == 2       \* callers sharing the pipeline

MicrosPerSecond == 1000000
DefaultFps == 30

Callers == 1..MaxCallers

\* StreamingConfig: the default with one thread of each kind and a channel
\* of one slot, and the configurations with a field at zero.
LifecycleConfigs ==
    {c \in [target_fps : {0, DefaultFps}, buffer_size : {0, 1},
            capture_threads : {0, 1}, encoding_threads : {0, 1}] :
        \/ c.target_fps = DefaultFps /\ c.buffer_size = 1
           /\ c.capture_threads = 1 /\ c.encoding_threads = 1
        \/ c.target_fps = 0 /\ c.buffer_size = 1 /\ c.capture_threads = 1
        \/ c.target_fps = DefaultFps /\ c.buffer_size = 0
           /\ c.capture_threads = 1 /\ c.encoding_threads = 1
        \/ c.target_fps = DefaultFps /\ c.buffer_size = 1
           /\ (c.capture_threads = 0 \/ c.encoding_threads = 0)
        \/ c.target_fps = 0 /\ c.buffer_size = 0
           /\ c.capture_threads = 0 /\ c.encoding_threads = 0}

\* Integer division as the code does it: a zero divisor panics, in every
\* build.
DivPanics(divisor) == divisor = 0

\* Duration::from_micros(1_000_000 / target_fps as u64), in microseconds.
frame_duration(target_fps) == MicrosPerSecond \div target_fps

\* A spawned thread: the start() that spawned it, its kind and where it
\* is.  A capture thread has frame_duration to compute before its loop;
\* the others set up locals only and are at their loop condition.
\* outlived_stop is history: the thread has read the flag as true after
\* stop() was called on its run.
SpawnedThread(run, kind) ==
    [run |-> run, kind |-> kind,
     pc |-> IF kind = "capture" THEN "spawned" ELSE "loop",
     outlived_stop |-> FALSE]

\* The threads one start() spawns, in the order of lines 145-154.
SpawnAll(run, cfg) ==
    [i \in 1..cfg.capture_threads |-> SpawnedThread(run, "capture")]
    \o [i \in 1..cfg.encoding_threads |-> SpawnedThread(run, "encode")]
    \o <<SpawnedThread(run, "output"), SpawnedThread(run, "stats")>>

\* StreamingPipeline::new.
LifecycleInit ==
    /\ pcfg \in LifecycleConfigs
    /\ running = FALSE
    /\ env = Nil /\ spawned = FALSE /\ frame_counter = 0
    /\ capture_q = <<>> /\ encode_q = <<>> /\ streaming = Nil
    /\ cap = Nil /\ enc = Nil /\ outp = "idle" /\ statp = "idle"
    /\ delivered = <<>> /\ hist = Nil /\ calls = 0 /\ last_call = Nil
    /\ callers = [c \in Callers |-> "idle"]
    /\ runs = <<>>
    /\ threads = <<>>
    /\ life_log = <<>>

LifecycleIdle ==
    /\ callers = Nil /\ runs = <<>> /\ threads = <<>> /\ life_log = <<>>

\* start(), line 132: the flag reads true, the "already running" error.
StartLoadRunning(c) ==
    /\ callers[c] = "idle"
    /\ Len(life_log) < MaxLifeCalls
    /\ running
    /\ life_log' = Append(life_log, [op |-> "start", ok |-> FALSE])
    /\ UNCHANGED <<pcfg, running, callers, runs, threads>>
    /\ LifecycleFrame

\* start(), line 132: the flag reads false, the call goes on.
StartLoadStopped(c) ==
    /\ callers[c] = "idle"
    /\ Len(life_log) + Cardinality({d \in Callers : callers[d] # "idle"}) < MaxLifeCalls
    /\ ~running
    /\ callers' = [callers EXCEPT ![c] = "loaded"]
    /\ UNCHANGED <<pcfg, running, runs, threads, life_log>>
    /\ LifecycleFrame

\* start(), line 138: running.store(true).
StartStore(c) ==
    /\ callers[c] = "loaded"
    /\ running' = TRUE
    /\ callers' = [callers EXCEPT ![c] = "stored"]
    /\ UNCHANGED <<pcfg, runs, threads, life_log>>
    /\ LifecycleFrame

\* start(), lines 141-156: the channels are made, the threads spawned, Ok.
StartSpawn(c) ==
    /\ callers[c] = "stored"
    /\ runs' = Append(runs, [stopped |-> FALSE])
    /\ threads' = threads \o SpawnAll(Len(runs) + 1, pcfg)
    /\ callers' = [callers EXCEPT ![c] = "idle"]
    /\ life_log' = Append(life_log, [op |-> "start", ok |-> TRUE])
    /\ UNCHANGED <<pcfg, running>>
    /\ LifecycleFrame

\* stop(): running.store(false).  Every run spawned so far has been told
\* to stop.
StopCall(c) ==
    /\ callers[c] = "idle"
    /\ Len(life_log) + Cardinality({d \in Callers : callers[d] # "idle"}) < MaxLifeCalls
    /\ running' = FALSE
    /\ runs' = [r \in 1..Len(runs) |-> [runs[r] EXCEPT !.stopped = TRUE]]
    /\ life_log' = Append(life_log, [op |-> "stop", ok |-> TRUE])
    /\ UNCHANGED <<pcfg, callers, threads>>
    /\ LifecycleFrame

\* A spawned thread runs up to its loop.  A capture thread first computes
\* frame_duration (line 187).
ThreadBegin(i) ==
    /\ threads[i].pc = "spawned"
    /\ threads' = [threads EXCEPT ![i].pc =
                     IF threads[i].kind = "capture" /\ DivPanics(pcfg.target_fps)
                     THEN "panicked" ELSE "loop"]
    /\ UNCHANGED <<pcfg, running, callers, runs, life_log>>
    /\ LifecycleFrame

\* while running.load(): the thread ends, or makes a turn of its loop and
\* comes back (lines 190, 244, 305, 325).
ThreadPoll(i) ==
    /\ threads[i].pc = "loop"
    /\ threads' = [threads EXCEPT
                     ![i].pc = IF running THEN "loop" ELSE "done",
                     ![i].outlived_stop = @ \/ (running /\ runs[threads[i].run].stopped)]
    /\ UNCHANGED <<pcfg, running, callers, runs, life_log>>
    /\ LifecycleFrame

LifecycleNext ==
    \/ \E c \in Callers : StartLoadRunning(c)
    \/ \E c \in Callers : StartLoadStopped(c)
    \/ \E c \in Callers : StartStore(c)
    \/ \E c \in Callers : StartSpawn(c)
    \/ \E c \in Callers : StopCall(c)
    \/ \E i \in 1..Len(threads) : ThreadBegin(i)
    \/ \E i \in 1..Len(threads) : ThreadPoll(i)


(***************************************************************************)
(* ZeroCopyOptimizer shared by threads                                     *)
(*                                                                         *)
(* capture_zero_copy, stats and reset_stats take &self, so threads call    *)
(* them on one optimizer at once; set_enabled takes &mut self and is over  *)
(* before the optimizer is shared.  A step is one critical section of the  *)
(* stats mutex, or the part of a call that runs outside it.  The images    *)
(* here are those whose width * height * 4 fits u32.                       *)
(***************************************************************************)
MaxZcThreads == 2       \* threads sharing the optimizer
MaxZcOps == 2           \* calls each thread makes

ZcThreads == 1..MaxZcThreads

ZeroCopyThreadsInit ==
    /\ zc_supported \in BOOLEAN
    /\ zc_enabled \in BOOLEAN
    /\ zc_stats = ZeroCopyStatsDefault
    /\ zc_last = Nil
    /\ zc_calls = 0
    /\ zc_lock = Unlocked
    /\ zc_thr = [t \in ZcThreads |-> [pc |-> "rest", ops |-> 0]]

ZeroCopyThreadsIdle ==
    /\ zc_lock = Unlocked /\ zc_thr = Nil

ZeroCopyThreadsFrame ==
    UNCHANGED <<poolVars, overflow_checks, adjVars, pipeVars, simdVars, threadVars,
                lifeVars, zc_supported, zc_enabled, zc_last, zc_calls,
                shotVars, paceVars>>

ZcAtRest(t) == zc_thr[t].pc = "rest" /\ zc_thr[t].ops < MaxZcOps

\* The disabled path with the guard dropped before the capturer is called.
ZcDisabledUnlocksFirst(t) ==
    /\ ZcAtRest(t)
    /\ ~is_enabled(zc_enabled, zc_supported)
    /\ zc_lock = Unlocked
    /\ zc_stats' = [zc_stats EXCEPT !.traditional_captures = @ + 1]
    /\ zc_thr' = [zc_thr EXCEPT ![t].pc = "traditional"]
    /\ UNCHANGED zc_lock
    /\ ZeroCopyThreadsFrame

\* capture_zero_copy, lines 105-109: not enabled; the lock is taken, the
\* capture is counted and capturer.capture_display is entered.  The guard
\* `stats` is a local of the block: it lives until the return.
ZcDisabledEnter(t) ==
    /\ ZcAtRest(t)
    /\ ~is_enabled(zc_enabled, zc_supported)
    /\ zc_lock = Unlocked
    /\ zc_lock' = t
    /\ zc_stats' = [zc_stats EXCEPT !.traditional_captures = @ + 1]
    /\ zc_thr' = [zc_thr EXCEPT ![t].pc = "traditional"]
    /\ ZeroCopyThreadsFrame

\* capture_zero_copy, lines 112-115: enabled; the platform path is entered
\* with no lock held.
ZcPlatformEnter(t) ==
    /\ ZcAtRest(t)
    /\ is_enabled(zc_enabled, zc_supported)
    /\ zc_thr' = [zc_thr EXCEPT ![t].pc = "platform"]
    /\ UNCHANGED <<zc_lock, zc_stats>>
    /\ ZeroCopyThreadsFrame

\* capture_zero_copy, lines 118-126: the platform path gave an image; the
\* lock is taken for the three updates and dropped at the end of the arm.
ZcPlatformOk(t) ==
    \E width \in DimInputs, height \in DimInputs, elapsed \in ElapsedInputs :
        /\ zc_thr[t].pc = "platform"
        /\ ~MulOverflowsU32(width, height)
        /\ zc_lock = Unlocked
        /\ zc_stats' = [zc_stats EXCEPT
                          !.zero_copy_captures = @ + 1,
                          !.time_saved_ms = @ + elapsed,
                          !.memory_saved_bytes =
                              @ + memory_saved_estimate(width, height)]
        /\ zc_thr' = [zc_thr EXCEPT ![t].pc = "rest", ![t].ops = @ + 1]
        /\ UNCHANGED zc_lock
        /\ ZeroCopyThreadsFrame

\* capture_zero_copy, lines 127-132: the platform path failed; the lock is
\* taken, the attempt and the capture are counted and
\* capturer.capture_display is entered with the guard alive.
ZcPlatformErr(t) ==
    /\ zc_thr[t].pc = "platform"
    /\ zc_lock = Unlocked
    /\ zc_lock' = t
    /\ zc_stats' = [zc_stats EXCEPT !.failed_attempts = @ + 1,
                                    !.traditional_captures = @ + 1]
    /\ zc_thr' = [zc_thr EXCEPT ![t].pc = "traditional"]
    /\ ZeroCopyThreadsFrame

\* capturer.capture_display returns, lines 109 and 132: the call returns
\* its result and the guard is dropped.
ZcTraditionalReturn(t) ==
    /\ zc_thr[t].pc = "traditional"
    /\ zc_lock' = Unlocked
    /\ zc_thr' = [zc_thr EXCEPT ![t].pc = "rest", ![t].ops = @ + 1]
    /\ UNCHANGED zc_stats
    /\ ZeroCopyThreadsFrame

\* stats(), lines 179-181: lock, clone, unlock.
ZcStats(t) ==
    /\ ZcAtRest(t)
    /\ zc_lock = Unlocked
    /\ zc_thr' = [zc_thr EXCEPT ![t].ops = @ + 1]
    /\ UNCHANGED <<zc_lock, zc_stats>>
    /\ ZeroCopyThreadsFrame

\* reset_stats(), lines 184-186: lock, overwrite, unlock.
ZcResetStats(t) ==
    /\ ZcAtRest(t)
    /\ zc_lock = Unlocked
    /\ zc_stats' = ZeroCopyStatsDefault
    /\ zc_thr' = [zc_thr EXCEPT ![t].ops = @ + 1]
    /\ UNCHANGED zc_lock
    /\ ZeroCopyThreadsFrame

ZeroCopyThreadsNext ==
    \E t \in ZcThreads :
        \/ ZcDisabledEnter(t)
        \/ ZcPlatformEnter(t)
        \/ ZcPlatformOk(t)
        \/ ZcPlatformErr(t)
        \/ ZcTraditionalReturn(t)
        \/ ZcStats(t)
        \/ ZcResetStats(t)


(***************************************************************************)
(* WebPScreenshot::capture_display (src/lib.rs)                            *)
(*                                                                         *)
(* One instance and the calls made on it (&mut self: one at a time).  A    *)
(* step is one turn of the retry loop: capture_display_internal and the    *)
(* arm of the match that its result selects.  What the attempt gives is    *)
(* drawn; the capture itself is the surroundings.  Lines 138-142, after    *)
(* the loop, are never reached: the turn with attempt = max_retries        *)
(* returns from every arm.                                                 *)
(***************************************************************************)
MaxRetries == 2         \* the largest config.max_retries
MaxShotCalls == 2       \* capture_display calls in one run

\* The errors capture_display_internal gives here.
CaptureErrors == {"CaptureTimeout", "MemoryAllocationFailed", "DisplayNotFound"}

\* CaptureError::is_recoverable.
is_recoverable(e) == e \in {"CaptureTimeout", "MemoryAllocationFailed"}

PerformanceStatsDefault ==
    [total_captures |-> 0, successful_captures |-> 0, failed_captures |-> 0]

ScreenshotInit ==
    /\ overflow_checks \in BOOLEAN
    /\ shot \in [max_retries : 0..MaxRetries, stats : {PerformanceStatsDefault},
                 pc : {"idle"}, attempt : {0}, errors : {<<>>}, calls : {0},
                 returned : {0}]
    /\ shot_last = Nil

ScreenshotIdle == shot = Nil /\ shot_last = Nil

ScreenshotFrame ==
    UNCHANGED <<poolVars, overflow_checks, adjVars, pipeVars, zcVars, simdVars,
                threadVars, lifeVars, zcThreadVars,
                paceVars>>

\* capture_display is called: the loop starts with attempt = 0.
CaptureDisplayCall ==
    /\ shot.pc = "idle"
    /\ shot.calls < MaxShotCalls
    /\ shot' = [shot EXCEPT !.pc = "loop", !.attempt = 0, !.errors = <<>>,
                            !.calls = @ + 1]
    /\ UNCHANGED shot_last
    /\ ScreenshotFrame

\* Lines 120-125: the attempt gives a screenshot.
AttemptOk ==
    /\ shot.pc = "loop"
    /\ shot' = [shot EXCEPT !.pc = "idle",
                            !.stats.successful_captures = @ + 1,
                            !.stats.total_captures = @ + 1,
                            !.returned = @ + 1]
    /\ shot_last' = [result |-> "Ok", attempts |-> shot.attempt + 1,
                     errors |-> shot.errors]
    /\ ScreenshotFrame

\* The retry arm taking every error while attempts are left.
AttemptErrRetryAny ==
    \E e \in CaptureErrors :
        /\ shot.pc = "loop"
        /\ shot.attempt < shot.max_retries
        /\ shot' = [shot EXCEPT !.attempt = @ + 1, !.errors = Append(@, e)]
        /\ UNCHANGED shot_last
        /\ ScreenshotFrame

\* Lines 126-129: a recoverable error with attempts left; the next turn.
AttemptErrRetry ==
    \E e \in CaptureErrors :
        /\ shot.pc = "loop"
        /\ is_recoverable(e) /\ shot.attempt < shot.max_retries
        /\ shot' = [shot EXCEPT !.attempt = @ + 1, !.errors = Append(@, e)]
        /\ UNCHANGED shot_last
        /\ ScreenshotFrame

\* Lines 130-134: any other error, or no attempt left; the error is returned.
AttemptErrReturn ==
    \E e \in CaptureErrors :
        /\ shot.pc = "loop"
        /\ ~(is_recoverable(e) /\ shot.attempt < shot.max_retries)
        /\ shot' = [shot EXCEPT !.pc = "idle",
                                !.stats.failed_captures = @ + 1,
                                !.stats.total_captures = @ + 1,
                                !.returned = @ + 1]
        /\ shot_last' = [result |-> e, attempts |-> shot.attempt + 1,
                         errors |-> Append(shot.errors, e)]
        /\ ScreenshotFrame

\* The attempt panics (with overflow checks on, capture_zero_copy can): the
\* call unwinds out of the loop and records nothing.
AttemptPanic ==
    /\ shot.pc = "loop"
    /\ overflow_checks
    /\ shot' = [shot EXCEPT !.pc = "idle"]
    /\ shot_last' = [result |-> "panic", attempts |-> shot.attempt + 1,
                     errors |-> shot.errors]
    /\ ScreenshotFrame

\* reset_stats(), lines 290-292.
ScreenshotResetStats ==
    /\ shot.pc = "idle"
    /\ shot.stats # PerformanceStatsDefault
    /\ shot' = [shot EXCEPT !.stats = PerformanceStatsDefault, !.returned = 0]
    /\ UNCHANGED shot_last
    /\ ScreenshotFrame

ScreenshotNext ==
    \/ CaptureDisplayCall
    \/ AttemptOk
    \/ AttemptErrRetry
    \/ AttemptErrReturn
    \/ AttemptPanic
    \/ ScreenshotResetStats


(***************************************************************************)
(* StreamingPipeline: the statistics thread (src/pipeline/streaming.rs)    *)
(*                                                                         *)
(* The fields of StreamingStats that the once-a-second sample reads and    *)
(* writes, and the two places outside the statistics thread that feed      *)
(* them: a capture thread that has captured a frame and an encoder thread  *)
(* that has encoded one.  Durations are whole ticks.  The variables are    *)
(* those of the pipeline; hist keeps what the code does not: the sum of    *)
(* the capture durations of the frames captured so far.                    *)
(***************************************************************************)
MaxStatFrames == 3      \* frames captured in one run
MaxSamples == 2         \* samples the statistics thread takes

\* Frame.capture_duration and encode_duration: never zero here.
StageDurations == {1, 2}

StatsThreadInit ==
    /\ running = TRUE
    /\ frame_counter = 0
    /\ streaming = [frames_captured |-> 0, frames_encoded |-> 0,
                    total_capture_time |-> 0, total_encode_time |-> 0,
                    avg_capture_time |-> 0, avg_encode_time |-> 0]
    /\ statp = "loop"
    /\ hist = [capture_time |-> 0, samples |-> 0, at_sample |-> Nil]
    /\ pcfg = Nil /\ env = Nil /\ spawned = TRUE
    /\ capture_q = <<>> /\ encode_q = <<>> /\ cap = Nil /\ enc = Nil
    /\ outp = "idle" /\ delivered = <<>> /\ calls = 0 /\ last_call = Nil

StatsThreadFrame ==
    UNCHANGED <<pcfg, env, spawned, capture_q, encode_q, cap, enc, outp, delivered,
                calls, last_call, poolVars, overflow_checks, adjVars, zcVars,
                simdVars, threadVars, lifeVars, zcThreadVars, shotVars,
                paceVars>>

\* A capture thread, lines 200-212: the frame is captured, its duration
\* goes into the Frame and the shared counter is advanced.  No field of
\* StreamingStats is written.
FrameCaptured ==
    \E d \in StageDurations :
        /\ running
        /\ frame_counter < MaxStatFrames
        /\ frame_counter' = frame_counter + 1
        /\ hist' = [hist EXCEPT !.capture_time = @ + d]
        /\ UNCHANGED <<running, streaming, statp>>
        /\ StatsThreadFrame

\* An encoder thread, lines 272-281: a captured frame is encoded.
FrameEncoded ==
    \E d \in StageDurations :
        /\ streaming.frames_encoded < frame_counter
        /\ streaming' = [streaming EXCEPT !.frames_encoded = @ + 1,
                                          !.total_encode_time = @ + d]
        /\ UNCHANGED <<running, frame_counter, statp, hist>>
        /\ StatsThreadFrame

\* stop().
StatsThreadStop ==
    /\ running
    /\ running' = FALSE
    /\ UNCHANGED <<frame_counter, streaming, statp, hist>>
    /\ StatsThreadFrame

\* while running.load(), line 325.
StatsThreadLoop ==
    /\ statp = "loop"
    /\ statp' = IF running THEN "sleep" ELSE "done"
    /\ UNCHANGED <<running, frame_counter, streaming, hist>>
    /\ StatsThreadFrame

\* Lines 326-356: after the sleep, one sample under the stats mutex.  The
\* averages are taken with frames_captured as the last sample left it.
StatsThreadSample ==
    /\ statp = "sleep"
    /\ hist.samples < MaxSamples
    /\ streaming' = [streaming EXCEPT
                       !.avg_capture_time =
                           IF streaming.frames_captured > 0
                           THEN streaming.total_capture_time
                                    \div streaming.frames_captured
                           ELSE @,
                       !.avg_encode_time =
                           IF streaming.frames_encoded > 0
                           THEN streaming.total_encode_time
                                    \div streaming.frames_encoded
                           ELSE @,
                       !.frames_captured = frame_counter]
    /\ hist' = [hist EXCEPT !.samples = @ + 1,
                            !.at_sample = [frames |-> frame_counter,
                                           capture_time |-> hist.capture_time,
                                           encoded |-> streaming.frames_encoded,
                                           encode_time |->
                                               streaming.total_encode_time]]
    /\ statp' = "loop"
    /\ UNCHANGED <<running, frame_counter>>
    /\ StatsThreadFrame

StatsThreadNext ==
    \/ FrameCaptured
    \/ FrameEncoded
    \/ StatsThreadStop
    \/ StatsThreadLoop
    \/ StatsThreadSample


(***************************************************************************)
(* A capture thread pacing itself (src/pipeline/streaming.rs, 186-225)     *)
(*                                                                         *)
(* One capture thread and the clock.  Time passes in Tick, between any two *)
(* steps of the thread and while it sleeps: a capture, a blocked send and  *)
(* a late wake-up all take the ticks that fall inside them.  thread::sleep *)
(* returns no earlier than asked.  target_fps is one for which the         *)
(* interval is not zero.                                                   *)
(***************************************************************************)
TimeQuantum == 50000    \* microseconds in one Tick
MaxClock == 600000      \* the clock stops here

\* target_fps: 10 and 20 frames per second.
PacingFps == {10, 20}

PacingInit ==
    /\ clock = 0
    /\ pace \in [target_fps : PacingFps, running : {TRUE}, pc : {"spawned"},
                 start_time : {0}, next_frame_time : {0}, iterations : {0},
                 paced : {0}, enqueued : {0}]

PacingIdle == clock = 0 /\ pace = Nil

PacingFrame ==
    UNCHANGED <<poolVars, overflow_checks, adjVars, pipeVars, zcVars, simdVars,
                threadVars, lifeVars, zcThreadVars, shotVars>>

PaceTick ==
    /\ clock + TimeQuantum <= MaxClock
    /\ clock' = clock + TimeQuantum
    /\ UNCHANGED pace
    /\ PacingFrame

\* stop().
PaceStop ==
    /\ pace.running
    /\ pace' = [pace EXCEPT !.running = FALSE]
    /\ UNCHANGED clock
    /\ PacingFrame

\* Lines 187-188: let mut next_frame_time = Instant::now().
PaceBegin ==
    /\ pace.pc = "spawned"
    /\ pace' = [pace EXCEPT !.pc = "loop", !.start_time = clock,
                            !.next_frame_time = clock]
    /\ UNCHANGED clock
    /\ PacingFrame

\* Line 190: while running.load(); an iteration starts or the thread ends.
PaceLoop ==
    /\ pace.pc = "loop"
    /\ pace' = IF pace.running
               THEN [pace EXCEPT !.pc = "capture", !.iterations = @ + 1]
               ELSE [pace EXCEPT !.pc = "done"]
    /\ UNCHANGED clock
    /\ PacingFrame

\* Lines 194-200: the capture returns, Ok or Err.
PaceCapture ==
    \E ok \in BOOLEAN :
        /\ pace.pc = "capture"
        /\ pace' = [pace EXCEPT !.pc = IF ok THEN "send" ELSE "pace"]
        /\ UNCHANGED clock
        /\ PacingFrame

\* Line 212: tx.send(frame) returns Ok.
PaceSend ==
    /\ pace.pc = "send"
    /\ pace' = [pace EXCEPT !.pc = "pace", !.enqueued = @ + 1]
    /\ UNCHANGED clock
    /\ PacingFrame

\* Lines 212-215: tx.send(frame) returns Err; break.
PaceSendDisconnected ==
    /\ pace.pc = "send"
    /\ pace' = [pace EXCEPT !.pc = "done"]
    /\ UNCHANGED clock
    /\ PacingFrame

\* The deadline advanced and the sleep left out.
PaceDeadlineNoSleep ==
    /\ pace.pc = "pace"
    /\ pace' = [pace EXCEPT
                  !.next_frame_time = @ + frame_duration(pace.target_fps),
                  !.paced = @ + 1,
                  !.pc = "loop"]
    /\ UNCHANGED clock
    /\ PacingFrame

\* Lines 219-223: next_frame_time += frame_duration; sleep if it is ahead
\* of now.
PaceDeadline ==
    /\ pace.pc = "pace"
    /\ LET next == pace.next_frame_time + frame_duration(pace.target_fps)
       IN  pace' = [pace EXCEPT !.next_frame_time = next,
                                !.paced = @ + 1,
                                !.pc = IF next > clock THEN "sleep" ELSE "loop"]
    /\ UNCHANGED clock
    /\ PacingFrame

\* thread::sleep(next_frame_time - now) returns: the deadline has passed.
PaceWake ==
    /\ pace.pc = "sleep"
    /\ clock >= pace.next_frame_time
    /\ pace' = [pace EXCEPT !.pc = "loop"]
    /\ UNCHANGED clock
    /\ PacingFrame

PacingNext ==
    \/ PaceTick
    \/ PaceStop
    \/ PaceBegin
    \/ PaceLoop
    \/ PaceCapture
    \/ PaceSend
    \/ PaceSendDisconnected
    \/ PaceDeadline
    \/ PaceWake


(***************************************************************************)
(* DefaultPixelConverter and SimdPixelConverter (src/capture/traits.rs)    *)
(*                                                                         *)
(* The two implementations of PixelFormatConverter::convert_bgra_to_rgba,  *)
(* called on buffers of every length up to MaxBufLen.  The variables are   *)
(* those of SimdConverter: the features detected, the buffer, the calls.   *)
(* data.swap(i, i + 2) is the slice method: it checks both indices and     *)
(* panics on one that is not below the length.                             *)
(***************************************************************************)

\* DefaultPixelConverter::convert_bgra_to_rgba, lines 74-79.
DefaultPixelConverter_convert_bgra_to_rgba(data) == Done(swap_chunks(data, 0, 4))

\* for i in (simd_len..len).step_by(4) { data.swap(i, i + 2) }, lines
\* 179-181 and 202-204.
swap_remaining(data, simd_len) ==
    LET len == Len(data)
        starts == {i \in simd_len..(len - 1) : (i - simd_len) % 4 = 0}
    IN  IF \E i \in starts : i + 2 >= len
        THEN IndexPanic
        ELSE Done([p \in 1..len |->
                     IF p - 1 < simd_len THEN data[p]
                     ELSE IF (p - 1 - simd_len) % 4 = 0 THEN data[p + 2]
                     ELSE IF (p - 1 - simd_len) % 4 = 2 THEN data[p - 2]
                     ELSE data[p]])

\* simd_converter::convert_bgra_to_rgba_avx2, lines 163-182.
simd_converter_convert_bgra_to_rgba_avx2(data) ==
    LET simd_len == Len(data) - (Len(data) % Avx2Block)
    IN  swap_remaining(shuffle_blocks(data, simd_len), simd_len)

\* simd_converter::convert_bgra_to_rgba_ssse3, lines 185-205.
simd_converter_convert_bgra_to_rgba_ssse3(data) ==
    LET simd_len == Len(data) - (Len(data) % Lane)
    IN  swap_remaining(shuffle_blocks(data, simd_len), simd_len)

\* SimdPixelConverter::convert_bgra_to_rgba, lines 123-142.
SimdPixelConverter_convert_bgra_to_rgba(conv, data) ==
    IF conv.arch = "x86_64"
    THEN IF conv.has_avx2 THEN simd_converter_convert_bgra_to_rgba_avx2(data)
         ELSE IF conv.has_ssse3 THEN simd_converter_convert_bgra_to_rgba_ssse3(data)
         ELSE DefaultPixelConverter_convert_bgra_to_rgba(data)
    ELSE DefaultPixelConverter_convert_bgra_to_rgba(data)

PixelConverterInit ==
    /\ converter \in Converters
    /\ \E len \in 0..MaxBufLen : \E seed \in Seeds :
           simd_in = [data |-> PatternUp(len, seed), dst |-> <<>>]
    /\ simd_data = simd_in.data
    /\ simd_dst = <<>>
    /\ simd_log = <<>>

\* DefaultPixelConverter.convert_bgra_to_rgba(&mut data)
PixelConvertDefault ==
    /\ CanConvert
    /\ LET r == DefaultPixelConverter_convert_bgra_to_rgba(simd_data)
       IN  /\ simd_data' = r.data
           /\ simd_log' = Append(simd_log,
                  [op |-> "DefaultPixelConverter", status |-> r.status,
                   data_in |-> simd_data, dst_in |-> simd_dst,
                   data_out |-> r.data, dst_out |-> simd_dst])
    /\ UNCHANGED <<converter, simd_in, simd_dst>>
    /\ SimdFrame

\* SimdPixelConverter.convert_bgra_to_rgba(&mut data).  What the buffer
\* holds after a panic is not kept.
PixelConvertSimd ==
    /\ CanConvert
    /\ LET r == SimdPixelConverter_convert_bgra_to_rgba(converter, simd_data)
       IN  /\ simd_data' = IF r.status = "ok" THEN r.data ELSE simd_data
           /\ simd_log' = Append(simd_log,
                  [op |-> "SimdPixelConverter", status |-> r.status,
                   data_in |-> simd_data, dst_in |-> simd_dst,
                   data_out |-> simd_data', dst_out |-> simd_dst])
    /\ UNCHANGED <<converter, simd_in, simd_dst>>
    /\ SimdFrame

PixelConverterNext ==
    \/ PixelConvertDefault
    \/ PixelConvertSimd

(***************************************************************************)
(* Specifications                                                          *)
(***************************************************************************)
InitPool ==
    /\ PoolInit /\ overflow_checks = FALSE /\ AdjustIdle /\ PipeIdle /\ ZeroCopyIdle
    /\ SimdIdle /\ PoolThreadsIdle /\ LifecycleIdle /\ ZeroCopyThreadsIdle /\ ScreenshotIdle /\ PacingIdle
InitAdjust ==
    /\ AdjustInit /\ PoolIdle /\ PipeIdle /\ ZeroCopyIdle /\ SimdIdle
    /\ PoolThreadsIdle /\ LifecycleIdle /\ ZeroCopyThreadsIdle /\ ScreenshotIdle /\ PacingIdle
InitPipe ==
    /\ PipeInit /\ PoolIdle /\ AdjustIdle /\ ZeroCopyIdle /\ SimdIdle
    /\ PoolThreadsIdle /\ LifecycleIdle /\ ZeroCopyThreadsIdle /\ ScreenshotIdle /\ PacingIdle
InitZeroCopy ==
    /\ ZeroCopyInit /\ PoolIdle /\ AdjustIdle /\ PipeIdle /\ SimdIdle
    /\ PoolThreadsIdle /\ LifecycleIdle /\ ZeroCopyThreadsIdle /\ ScreenshotIdle /\ PacingIdle
InitSimd ==
    /\ SimdInit /\ overflow_checks = FALSE /\ PoolIdle /\ AdjustIdle /\ PipeIdle
    /\ ZeroCopyIdle /\ PoolThreadsIdle /\ LifecycleIdle /\ ZeroCopyThreadsIdle /\ ScreenshotIdle /\ PacingIdle
InitPoolThreads ==
    /\ PoolThreadsInit /\ overflow_checks = FALSE /\ AdjustIdle /\ PipeIdle
    /\ ZeroCopyIdle /\ SimdIdle /\ LifecycleIdle /\ ZeroCopyThreadsIdle /\ ScreenshotIdle /\ PacingIdle
InitLifecycle ==
    /\ LifecycleInit /\ overflow_checks = FALSE /\ PoolIdle /\ AdjustIdle
    /\ ZeroCopyIdle /\ SimdIdle /\ PoolThreadsIdle /\ ZeroCopyThreadsIdle /\ ScreenshotIdle /\ PacingIdle
InitZeroCopyThreads ==
    /\ ZeroCopyThreadsInit /\ overflow_checks = FALSE /\ PoolIdle /\ AdjustIdle
    /\ PipeIdle /\ SimdIdle /\ PoolThreadsIdle /\ LifecycleIdle /\ ScreenshotIdle /\ PacingIdle
InitScreenshot ==
    /\ ScreenshotInit /\ PoolIdle /\ AdjustIdle /\ PipeIdle /\ ZeroCopyIdle
    /\ SimdIdle /\ PoolThreadsIdle /\ LifecycleIdle /\ ZeroCopyThreadsIdle /\ PacingIdle
InitStatsThread ==
    /\ StatsThreadInit /\ overflow_checks = FALSE /\ PoolIdle /\ AdjustIdle
    /\ ZeroCopyIdle /\ SimdIdle /\ PoolThreadsIdle /\ LifecycleIdle
    /\ ZeroCopyThreadsIdle /\ ScreenshotIdle /\ PacingIdle
InitPacing ==
    /\ PacingInit /\ overflow_checks = FALSE /\ PoolIdle /\ AdjustIdle /\ PipeIdle
    /\ ZeroCopyIdle /\ SimdIdle /\ PoolThreadsIdle /\ LifecycleIdle
    /\ ZeroCopyThreadsIdle /\ ScreenshotIdle
InitPixelConverter ==
    /\ PixelConverterInit /\ overflow_checks = FALSE /\ PoolIdle /\ AdjustIdle
    /\ PipeIdle /\ ZeroCopyIdle /\ PoolThreadsIdle /\ LifecycleIdle
    /\ ZeroCopyThreadsIdle /\ ScreenshotIdle /\ PacingIdle

SpecPool == InitPool /\ [][PoolNext]_vars

SpecPoolThreads == InitPoolThreads /\ [][PoolThreadsNext]_vars

SpecAdjust == InitAdjust /\ [][AdjustNext]_vars

SpecPipe == InitPipe /\ [][PipeNext]_vars

SpecPipeFair == InitPipe /\ [][PipeNext]_vars /\ PipeFairness

SpecZeroCopy == InitZeroCopy /\ [][ZeroCopyNext]_vars

SpecLifecycle == InitLifecycle /\ [][LifecycleNext]_vars

SpecSimd == InitSimd /\ [][SimdNext]_vars

SpecZeroCopyThreads == InitZeroCopyThreads /\ [][ZeroCopyThreadsNext]_vars

SpecScreenshot == InitScreenshot /\ [][ScreenshotNext]_vars

SpecStatsThread == InitStatsThread /\ [][StatsThreadNext]_vars

SpecPacing == InitPacing /\ [][PacingNext]_vars

SpecPixelConverter == InitPixelConverter /\ [][PixelConverterNext]_vars

(***************************************************************************)
(* Claims about the pool, checked under SpecPool.                          *)
(***************************************************************************)

\* C1: whenever no buffer is outstanding after a sequential run of acquire,
\* drop and into_vec, current_memory_usage is 0.
C1_ActiveMemoryZeroWhenIdle ==
    held = <<>> => stats.current_memory_usage = 0

\* C2: acquire(size) with size > 0 never fails; a miss that finds
\* current_memory_usage + size > max_memory hands out an untracked buffer
\* and leaves current_memory_usage, peak_memory_usage and
\* total_buffers_created as they were; dropping or detaching an untracked
\* buffer changes no counter and leaves the idle list as it was.
C2_CapFallbackUntracked ==
    [][ops' = ops + 1 =>
        /\ (last'.op = "acquire" /\ last'.size > 0) => last'.ok
        /\ (/\ last'.op = "acquire" /\ last'.ok /\ ~last'.hit
            /\ stats.current_memory_usage + last'.size > config.max_memory)
           => /\ ~last'.buf.pool
              /\ Len(held') = Len(held) + 1
              /\ stats'.current_memory_usage = stats.current_memory_usage
              /\ stats'.peak_memory_usage = stats.peak_memory_usage
              /\ stats'.total_buffers_created = stats.total_buffers_created
        /\ (last'.op \in {"drop", "into_vec"} /\ ~last'.buf.pool)
           => stats' = stats /\ buffers' = buffers
       ]_vars

\* C2 witness: an untracked buffer, handed out over the cap while another
\* buffer was outstanding, has been dropped.
C2_Witness ==
    /\ last.op = "drop" /\ ~last.buf.pool
    /\ stats.current_memory_usage > 0
    /\ stats.current_memory_usage + last.size > config.max_memory

\* C3: acquire(size) drops the idle entries older than buffer_timeout, then
\* takes the first remaining entry, in insertion order, whose recorded size
\* s has size <= s <= 2*size; it is a hit exactly when there is one, and a
\* miss with a newly allocated buffer otherwise.  No expired entry is
\* handed out.
C3_FirstFitAfterExpiry ==
    [][(ops' = ops + 1 /\ last'.op = "acquire" /\ last'.ok) =>
        LET size == last'.size
            fresh == {i \in 1..Len(buffers) :
                        now - buffers[i].last_used <= config.buffer_timeout}
            fit == {i \in fresh : size <= buffers[i].size
                                  /\ buffers[i].size <= 2 * size}
            first == CHOOSE k \in fit : \A j \in fit : k <= j
            Keep(drop) == SelectSeq([i \in 1..Len(buffers) |-> <<i, buffers[i]>>],
                                    LAMBDA p : p[1] \in fresh \ drop)
            Entries(ps) == [i \in 1..Len(ps) |-> ps[i][2]]
        IN  /\ last'.hit <=> fit # {}
            /\ fit # {} =>
                 /\ buffers' = Entries(Keep({first}))
                 /\ last'.buf.data = buffers[first].buffer
                 /\ stats'.total_buffers_created = stats.total_buffers_created
            /\ fit = {} =>
                 /\ buffers' = Entries(Keep({}))
                 /\ last'.buf.data = size
                 /\ stats'.buffer_misses = stats.buffer_misses + 1
       ]_vars

\* C3 witness: a hit that took a larger idle buffer for a smaller request
\* (the 1024-for-512 case) while another entry stayed in the list.
C3_Witness ==
    /\ last.op = "acquire" /\ last.hit
    /\ last.buf.data = 2 * last.size
    /\ Len(buffers) >= 1

\* C4: the buffer a hit hands out is at most twice the requested size:
\* data().len() <= 2*size.
C4_HitWastesAtMostTwice ==
    (last.op = "acquire" /\ last.hit) => last.buf.data <= 2 * last.size

(***************************************************************************)
(* Claims about start and stop, checked under SpecPipe and SpecPipeFair.   *)
(***************************************************************************)

\* C5: start() on a running pipeline returns the "already running" error
\* and changes nothing: no thread, no channel, the flag stays set, and the
\* threads of the first run are where they were.
C5_StartOnRunningRejected ==
    [][(calls' = calls + 1 /\ last_call'.op = "start" /\ running) =>
        /\ ~last_call'.ok
        /\ running'
        /\ UNCHANGED <<pcfg, spawned, frame_counter, capture_q, encode_q,
                       streaming, cap, enc, outp, statp, delivered>>
      ]_vars

\* C5 witness: a start() was rejected while the first run had a frame on
\* its way and had already delivered one.
C5_Witness ==
    /\ last_call = [op |-> "start", ok |-> FALSE]
    /\ running
    /\ delivered # <<>>
    /\ \E t \in CaptureIds : cap[t].pc = "send"

\* C6: once stop() has been called (and start() is not called again), every
\* capture, encoder, output and stats thread eventually ends, a thread
\* blocked sending on a full channel included; is_running() is false from
\* the moment stop() returns.
C6_StopEndsEveryThread ==
    /\ (spawned /\ ~running) ~> AllThreadsExited
    /\ [](last_call.op = "stop" => ~running)

\* C6 witness: stop() was called while the capture thread was blocked
\* sending on a full capture->encode channel and an encoder thread was
\* blocked sending on a full encode->output channel.
C6_Witness ==
    /\ spawned /\ ~running
    /\ last_call.op = "stop"
    /\ Len(capture_q) = pcfg.buffer_size
    /\ \E t \in CaptureIds : cap[t].pc = "send"
    /\ ~CaptureReceiversGone
    /\ Len(encode_q) = pcfg.buffer_size
    /\ \E t \in EncoderIds : enc[t].pc = "send"
    /\ ~EncodeReceiverGone

(***************************************************************************)
(* Claims about adjust_quality, checked under SpecAdjust.                  *)
(***************************************************************************)

\* C7: when capture_duration > 20 ms or backlog > 30, adjust_quality gives
\* quality = max(quality - 5, 60) and method = max(method - 1, 0), for every
\* u8 quality and method, without failing and without wrapping around.
C7_SlowStepsDownWithinBounds ==
    (/\ adj_out # Nil
     /\ (adj_args.capture_duration > 20 \/ adj_args.buffer_depth > 30))
    => /\ adj_out # Panic
       /\ adj_out.quality = Max(adj_in.quality - 5, 60)
       /\ adj_out.method = Max(adj_in.method - 1, 0)

(***************************************************************************)
(* Claims about the encoder threads, checked under SpecPipe.               *)
(***************************************************************************)

\* C8: an encoder thread gives up a popped frame without passing it to the
\* encoder exactly when allow_frame_drop is set and the backlog it reads
\* after the pop is above 10; each such frame adds exactly 1 to
\* frames_dropped and is never delivered; with allow_frame_drop unset
\* frames_dropped never changes and every popped frame goes to the encoder.
C8_DropOnlyOnBacklog ==
    [][\A t \in EncoderIds :
         LET stepped == enc'[t] # enc[t]
             leaves == enc[t].frame # NoFrame /\ enc'[t].frame = NoFrame
             encoded == enc[t].pc = "encode"
             backlogged == pcfg.allow_frame_drop /\ Len(capture_q) > 10
         IN  /\ (stepped /\ enc[t].pc = "check") =>
                  (backlogged <=> (leaves /\ ~encoded))
             /\ (stepped /\ leaves /\ ~encoded) =>
                  /\ enc[t].pc = "check" /\ backlogged
                  /\ streaming'.frames_dropped = streaming.frames_dropped + 1
             /\ ~pcfg.allow_frame_drop =>
                  streaming'.frames_dropped = streaming.frames_dropped
             /\ \A i \in 1..Len(delivered') : delivered'[i] \notin hist'.dropped
      ]_vars

\* C9: a failed capture enqueues nothing and the capture thread goes on to
\* its next tick; a failed encode forwards nothing, is not retried, and the
\* encoder thread goes on to its next frame; neither touches the running
\* flag.
C9_FrameFailureAbsorbed ==
    [][/\ \A t \in CaptureIds :
            (/\ cap[t].pc = "capture" /\ cap'[t].pc # "capture"
             /\ frame_counter' = frame_counter)
            => /\ cap'[t] = [pc |-> "loop", frame |-> NoFrame]
               /\ capture_q' = capture_q
               /\ running' = running
       /\ \A t \in EncoderIds :
            (/\ enc[t].pc = "encode" /\ enc'[t].pc # "encode"
             /\ streaming'.frames_encoded = streaming.frames_encoded)
            => /\ enc'[t].pc = "loop"
               /\ enc'[t].frame = NoFrame /\ enc'[t].data = NoFrame
               /\ encode_q' = encode_q /\ capture_q' = capture_q
               /\ running' = running
      ]_vars

\* C9 witness: an encode failed, the pipeline is still running, and a frame
\* captured after the failed one has been delivered.
C9_Witness ==
    /\ running
    /\ \E f \in hist.failed : \E i \in 1..Len(delivered) : delivered[i] > f

\* C10: once the pipeline is quiescent, the frames the encoder threads
\* popped are all counted by StreamingStats: popped = encoded + dropped
\* (+ failed, for which StreamingStats has no counter).  Runs in which an
\* encoder thread panicked in adjust_quality are left aside, so that only
\* the accounting of per-frame encode failures is at stake.
C10_PoppedFramesAllCounted ==
    (AllThreadsExited /\ hist.panicked = {}) =>
        hist.popped = streaming.frames_encoded + streaming.frames_dropped

(***************************************************************************)
(* Claims about the zero-copy optimizer, checked under SpecZeroCopy.       *)
(***************************************************************************)

\* C11: with the optimizer enabled, a capture_zero_copy call whose platform
\* path fails adds 1 to failed_attempts and 1 to traditional_captures,
\* leaves zero_copy_captures and memory_saved_bytes alone, calls
\* capture_display exactly once and returns what it returned.
C11_PlatformFailureFallsBack ==
    [][(/\ zc_calls' = zc_calls + 1
        /\ zc_enabled /\ zc_supported
        /\ zc_last'.platform = "err")
       => /\ zc_stats'.failed_attempts = zc_stats.failed_attempts + 1
          /\ zc_stats'.traditional_captures = zc_stats.traditional_captures + 1
          /\ zc_stats'.zero_copy_captures = zc_stats.zero_copy_captures
          /\ zc_stats'.memory_saved_bytes = zc_stats.memory_saved_bytes
          /\ zc_last'.capturer_calls = 1
          /\ zc_last'.result = zc_last'.would
      ]_vars

\* C11 witness: the platform path failed, the capturer failed too, and its
\* error came back.
C11_Witness ==
    /\ zc_last.op = "capture" /\ zc_last.platform = "err"
    /\ zc_last.result = [ok |-> FALSE, val |-> "DisplayNotFound"]
    /\ zc_stats.failed_attempts = 1 /\ zc_stats.traditional_captures = 2

\* C12: with the optimizer disabled (switched off, or no platform path on
\* the target), every capture_zero_copy call adds exactly 1 to
\* traditional_captures, leaves zero_copy_captures, failed_attempts and
\* memory_saved_bytes alone, and returns exactly what capture_display
\* returns, success or error.
C12_DisabledIsTraditional ==
    [][(zc_calls' = zc_calls + 1 /\ ~(zc_enabled /\ zc_supported))
       => /\ zc_stats'.traditional_captures = zc_stats.traditional_captures + 1
          /\ zc_stats'.zero_copy_captures = zc_stats.zero_copy_captures
          /\ zc_stats'.failed_attempts = zc_stats.failed_attempts
          /\ zc_stats'.memory_saved_bytes = zc_stats.memory_saved_bytes
          /\ zc_last'.capturer_calls = 1
          /\ zc_last'.result = zc_last'.would
      ]_vars

\* C12 witness: an optimizer on a supported target, switched off after a
\* zero-copy capture, passed the capturer's error on.
C12_Witness ==
    /\ zc_supported /\ ~zc_enabled
    /\ zc_last.op = "capture" /\ zc_last.platform = "none"
    /\ zc_last.result = [ok |-> FALSE, val |-> "CaptureFailed"]
    /\ zc_stats.zero_copy_captures = 1 /\ zc_stats.traditional_captures = 1

\* C13: capture_zero_copy returns Ok whenever capture_display would
\* succeed, and an error it returns is the one capture_display returned;
\* what goes wrong in the platform path never reaches the caller.
C13_OnlyCapturerErrorsSurface ==
    zc_last.op = "capture" =>
        /\ zc_last.would.ok => zc_last.result.ok
        /\ ~zc_last.result.ok => zc_last.result = zc_last.would

\* C14: with the optimizer enabled, a capture_zero_copy call whose platform
\* path succeeds adds 1 to zero_copy_captures and exactly width*height*4,
\* without 32-bit wrap-around, to memory_saved_bytes, leaves
\* traditional_captures and failed_attempts alone and does not call the
\* capturer.
C14_SuccessSavesWidthHeight4 ==
    [][(/\ zc_calls' = zc_calls + 1
        /\ zc_enabled /\ zc_supported
        /\ zc_last'.platform = "ok")
       => /\ zc_stats'.zero_copy_captures = zc_stats.zero_copy_captures + 1
          /\ zc_stats'.memory_saved_bytes =
                 zc_stats.memory_saved_bytes
                 + zc_last'.width * zc_last'.height * 4
          /\ zc_stats'.traditional_captures = zc_stats.traditional_captures
          /\ zc_stats'.failed_attempts = zc_stats.failed_attempts
          /\ zc_last'.capturer_calls = 0
      ]_vars

(***************************************************************************)
(* More claims about the pool, checked under SpecPool.  The pool's calls   *)
(* change the idle list only while they hold the pool's lock, so the runs  *)
(* of SpecPool, in which any held buffer may be dropped or detached at any *)
(* time, are the interleavings of any number of threads as far as the      *)
(* idle list goes.                                                         *)
(***************************************************************************)

\* C15: into_vec on a tracked buffer takes the buffer's size off
\* current_memory_usage exactly once and the buffer never enters the idle
\* list: the idle list and every other counter are as before, and the end
\* of the buffer's scope (part of the same step) takes nothing more off.
C15_IntoVecDetaches ==
    [][(ops' = ops + 1 /\ last'.op = "into_vec" /\ last'.buf.pool)
       => /\ stats' = [stats EXCEPT !.current_memory_usage = @ - last'.size]
          /\ buffers' = buffers
          /\ Len(held') = Len(held) - 1
      ]_vars

\* C15 witness: a tracked buffer was detached while an idle entry was in
\* the list, and nothing is outstanding any more.
C15_Witness ==
    /\ last.op = "into_vec" /\ last.buf.pool
    /\ buffers # <<>>
    /\ held = <<>>

C17_HitsMissesReuse ==
    /\ [](stats.memory_reuse_count = stats.buffer_hits)
    /\ [][(ops' = ops + 1 /\ last'.op = "acquire" /\ last'.ok)
          => /\ stats'.buffer_hits + stats'.buffer_misses
                  = stats.buffer_hits + stats.buffer_misses + 1
             /\ stats'.buffer_hits >= stats.buffer_hits
             /\ stats'.buffer_misses >= stats.buffer_misses
             /\ last'.hit <=> stats'.buffer_hits = stats.buffer_hits + 1
             /\ last'.hit =>
                  /\ stats'.memory_reuse_count = stats.memory_reuse_count + 1
                  /\ stats'.total_buffers_created = stats.total_buffers_created
         ]_vars
    /\ [][(/\ ~config.preallocate
           /\ ops = 2 /\ ops' = 3
           /\ last.op = "drop" /\ last.buf.pool
           /\ last'.op = "acquire" /\ last'.size = last.size
           /\ \A i \in 1..Len(buffers) :
                ~is_expired(buffers[i], now, config.buffer_timeout))
          => /\ stats'.memory_reuse_count = 1
             /\ stats'.total_buffers_created = 1
         ]_vars

\* C17 witness: acquire(N), drop, acquire(N) on a pool with nothing
\* preallocated: the third call was a hit.
C17_Witness ==
    /\ ~config.preallocate
    /\ ops = 3
    /\ last.op = "acquire" /\ last.hit /\ last.buf.data = last.size
    /\ stats.memory_reuse_count = 1 /\ stats.total_buffers_created = 1
    /\ stats.buffer_misses = 1

\* C18: acquire(0) fails with InvalidBufferSize and leaves the pool as it
\* was: the idle list, expired entries included, and every counter.
C18_AcquireZeroRejected ==
    [][(ops' = ops + 1 /\ last'.op = "acquire" /\ last'.size = 0)
       => /\ ~last'.ok /\ last'.err = "InvalidBufferSize"
          /\ buffers' = buffers
          /\ stats' = stats
          /\ held' = held
      ]_vars

\* C18 witness: acquire(0) was called while an expired entry was in the
\* idle list, and the entry is still there.
C18_Witness ==
    /\ last.op = "acquire" /\ last.size = 0 /\ ~last.ok
    /\ \E i \in 1..Len(buffers) :
         is_expired(buffers[i], now, config.buffer_timeout)

(***************************************************************************)
(* The fast branch of adjust_quality, checked under SpecAdjust.            *)
(***************************************************************************)

\* C19: when capture_duration < 10 ms and backlog < 10, adjust_quality
\* gives quality = min(quality + 2, 90) and method = min(method + 1, 4), for
\* every u8 quality and method; when neither that nor the slow condition
\* (capture_duration > 20 ms or backlog > 30) holds it gives the
\* configuration back unchanged; no other field is ever modified.
C19_FastStepsUpWithinBounds ==
    adj_out # Nil =>
        LET slow == adj_args.capture_duration > 20 \/ adj_args.buffer_depth > 30
            fast == adj_args.capture_duration < 10 /\ adj_args.buffer_depth < 10
        IN  /\ (fast /\ ~slow) =>
                 /\ adj_out # Panic
                 /\ adj_out.quality = Min(adj_in.quality + 2, 90)
                 /\ adj_out.method = Min(adj_in.method + 1, 4)
            /\ (~fast /\ ~slow) => adj_out = adj_in
            /\ adj_out # Panic => adj_out.lossless = adj_in.lossless

(***************************************************************************)
(* The output thread, checked under SpecPipe.  A payload is named by the   *)
(* frame it was encoded from.                                              *)
(***************************************************************************)

\* C20: the output thread calls the callback exactly once for each payload
\* it receives, in the order the payloads arrive on the encode->output
\* channel, with the bytes the encoder returned; with one capture thread
\* and one encoder thread the payloads are delivered in capture order.
C20_CallbackInArrivalOrder ==
    /\ [][/\ delivered' # delivered =>
               /\ encode_q # <<>>
               /\ delivered' = Append(delivered, Head(encode_q))
               /\ encode_q' = Tail(encode_q)
          /\ Len(encode_q') < Len(encode_q) =>
               delivered' = Append(delivered, Head(encode_q))
         ]_vars
    /\ [](\A i \in 1..Len(delivered) :
            /\ delivered[i] \in 0..(frame_counter - 1)
            /\ delivered[i] \notin (hist.dropped \cup hist.failed \cup hist.panicked)
            /\ \A j \in 1..Len(delivered) : i # j => delivered[i] # delivered[j])
    /\ []((pcfg.capture_threads = 1 /\ pcfg.encoding_threads = 1) =>
            \A i \in 1..Len(delivered) : \A j \in 1..Len(delivered) :
                i < j => delivered[i] < delivered[j])

\* C20 witness: one capture thread and one encoder thread, three payloads
\* delivered, while another payload waits on the channel.
C20_Witness ==
    /\ pcfg.capture_threads = 1 /\ pcfg.encoding_threads = 1
    /\ Len(delivered) >= 3
    /\ encode_q # <<>>

(***************************************************************************)
(* The cap on tracked active memory, checked under SpecPool.               *)
(***************************************************************************)

\* C27: in a single-threaded run, after any sequence of acquire, release
\* and into_vec, served by hits as well as by misses,
\* current_memory_usage is at most max_memory.
C27_ActiveMemoryWithinCap ==
    stats.current_memory_usage <= config.max_memory

(***************************************************************************)
(* Claims about the pixel conversions, checked under SpecSimd.             *)
(***************************************************************************)

\* C21: convert_bgra_to_rgba (stride 4) and convert_bgr_to_rgb (stride 3)
\* swap byte 0 and byte 2 of every complete pixel group and change nothing
\* else, and every dispatch path gives the result of the scalar path, for
\* every buffer length.
C21_SwapsEveryCompleteGroup ==
    \A i \in 1..Len(simd_log) :
        LET e == simd_log[i]
            stride == IF e.op = "convert_bgra_to_rgba" THEN 4 ELSE 3
            len == Len(e.data_in)
            groups == len \div stride
        IN  e.op \in {"convert_bgra_to_rgba", "convert_bgr_to_rgb"} =>
                /\ e.status = "ok"
                /\ Len(e.data_out) = len
                /\ \A k \in 0..(groups - 1) :
                       /\ e.data_out[stride * k + 1] = e.data_in[stride * k + 3]
                       /\ e.data_out[stride * k + 2] = e.data_in[stride * k + 2]
                       /\ e.data_out[stride * k + 3] = e.data_in[stride * k + 1]
                       /\ stride = 4 => e.data_out[4 * k + 4] = e.data_in[4 * k + 4]
                /\ \A p \in (stride * groups + 1)..len : e.data_out[p] = e.data_in[p]
                /\ e.data_out = IF stride = 4
                                THEN convert_bgra_to_rgba_scalar(e.data_in)
                                ELSE convert_bgr_to_rgb_scalar(e.data_in)

\* C22: convert_bgra_to_rgba applied twice to a buffer whose length is a
\* multiple of 4 restores the buffer, on every dispatch path.
C22_BgraTwiceRestores ==
    \A i \in 1..Len(simd_log) :
        (simd_log[i].op = "convert_bgra_to_rgba" /\ Len(simd_log[i].data_in) % 4 = 0) =>
            /\ simd_log[i].status = "ok"
            /\ (i > 1 /\ simd_log[i - 1].op = "convert_bgra_to_rgba") =>
                   simd_log[i].data_out = simd_log[i - 1].data_in

\* C23: convert_rgba_to_rgb(src, dst) with dst.len() >= 3 * floor(src.len() / 4)
\* writes dst[3k..3k+3] = src[4k..4k+3] for every complete input pixel k,
\* leaves src and every dst byte from index 3 * floor(src.len() / 4) on
\* unchanged, and every dispatch path gives the dst of the scalar path.
C23_RgbaToRgbDropsAlpha ==
    \A i \in 1..Len(simd_log) :
        LET e == simd_log[i]
            pixels == Len(e.data_in) \div 4
        IN  (e.op = "convert_rgba_to_rgb" /\ Len(e.dst_in) >= 3 * pixels) =>
                /\ e.status = "ok"
                /\ Len(e.dst_out) = Len(e.dst_in)
                /\ \A k \in 0..(pixels - 1) : \A c \in 1..3 :
                       e.dst_out[3 * k + c] = e.data_in[4 * k + c]
                /\ \A p \in (3 * pixels + 1)..Len(e.dst_in) : e.dst_out[p] = e.dst_in[p]
                /\ e.data_out = e.data_in
                /\ Done(e.dst_out) = convert_rgba_to_rgb_scalar(e.data_in, e.dst_in)

\* C23 witness: the AVX2 path has converted a source of one block of 8
\* pixels, more pixels and a trailing incomplete pixel into a destination
\* with a byte to spare.
C23_Witness ==
    /\ converter.has_avx2
    /\ \E i \in 1..Len(simd_log) :
           /\ simd_log[i].op = "convert_rgba_to_rgb"
           /\ simd_log[i].status = "ok"
           /\ Len(simd_log[i].data_in) > 4 * RgbaBlockPixels + 4
           /\ Len(simd_log[i].data_in) % 4 # 0
           /\ Len(simd_log[i].dst_in) > 3 * (Len(simd_log[i].data_in) \div 4)
           /\ simd_log[i].dst_out # simd_log[i].dst_in

\* C24: the three conversions complete without a failure for every input
\* buffer length, convert_rgba_to_rgb for every destination length, on
\* every dispatch path.
C24_ConversionsTotal ==
    \A i \in 1..Len(simd_log) : simd_log[i].status = "ok"

(***************************************************************************)
(* Claims about the pool shared by threads, checked under SpecPoolThreads. *)
(***************************************************************************)

\* C26: in a pool where every acquire misses (max_buffers = 0), under any
\* interleaving of acquire and release by two or more threads,
\* current_memory_usage never exceeds max_memory.
C26_CapHoldsAcrossThreads ==
    config.max_buffers = 0 => stats.current_memory_usage <= config.max_memory

\* C30: the pool mutex is never held while a buffer is allocated or grown,
\* on the miss path, on the hit path and in pre-allocation at construction.
C30_NoAllocationUnderLock ==
    \A a \in allocs : ~a.locked

(***************************************************************************)
(* Claims about start() and stop(), checked under SpecLifecycle.           *)
(***************************************************************************)

\* C25: for a configuration with zero target_fps, buffer_size or thread
\* counts, new() yields a stopped pipeline and a later start() raises no
\* arithmetic fault in any spawned thread, in particular none in the
\* frame-interval computation 1,000,000 / target_fps.
C25_ZeroConfigHandled ==
    (\/ pcfg.target_fps = 0 \/ pcfg.buffer_size = 0
     \/ pcfg.capture_threads = 0 \/ pcfg.encoding_threads = 0) =>
        /\ (life_log = <<>> /\ \A c \in Callers : callers[c] = "idle") => ~running
        /\ \A i \in 1..Len(threads) : threads[i].pc # "panicked"

\* C28: once stop() has been called, every thread spawned by the preceding
\* start() exits at its next poll, even when start() is called again
\* before that poll.
C28_StoppedRunStaysStopped ==
    [][\A i \in 1..Len(threads) :
          (/\ threads[i].pc = "loop"
           /\ runs[threads[i].run].stopped
           /\ threads'[i] # threads[i]) => threads'[i].pc = "done"]_vars

\* C29: of two start() calls racing on a stopped pipeline at most one
\* succeeds: while stop() has not been called, at most one start() has
\* returned Ok and at most one set of threads has been spawned.
C29_OneStartWins ==
    (\A k \in 1..Len(life_log) : life_log[k].op # "stop") =>
        /\ Len(runs) <= 1
        /\ Cardinality({k \in 1..Len(life_log) :
                           life_log[k].op = "start" /\ life_log[k].ok}) <= 1

(***************************************************************************)
(* The peak of active memory, checked under SpecPool.                      *)
(***************************************************************************)

\* C31: peak_memory_usage never decreases, and after every completed
\* operation of a single-threaded run peak_memory_usage >=
\* current_memory_usage.
C31_PeakIsHighWaterMark ==
    /\ [](stats.peak_memory_usage >= stats.current_memory_usage)
    /\ [][stats'.peak_memory_usage >= stats.peak_memory_usage]_vars

(***************************************************************************)
(* Counters and channels of the pipeline, checked under SpecPipe.          *)
(***************************************************************************)

\* C32: in every reachable state, running or stopped, each channel holds
\* at most buffer_size items, and callback invocations <= frames_encoded
\* <= frames popped by encoder threads <= frames enqueued by capture
\* threads <= frame ids issued; frames_encoded, frames_dropped and
\* bytes_encoded never decrease.  Frames enqueued are those popped and
\* those still on the capture->encode channel.
C32_ChannelsBoundedCountersOrdered ==
    /\ [](/\ Len(capture_q) <= pcfg.buffer_size
          /\ Len(encode_q) <= pcfg.buffer_size
          /\ Len(delivered) <= streaming.frames_encoded
          /\ streaming.frames_encoded <= hist.popped
          /\ hist.popped <= hist.popped + Len(capture_q)
          /\ hist.popped + Len(capture_q) <= frame_counter)
    /\ [][/\ streaming'.frames_encoded >= streaming.frames_encoded
          /\ streaming'.frames_dropped >= streaming.frames_dropped
          /\ streaming'.bytes_encoded >= streaming.bytes_encoded]_vars

\* C32 witness: a stopped pipeline with both channels full, a payload
\* delivered, a frame encoded but not delivered and a frame issued but
\* not enqueued.
C32_Witness ==
    /\ spawned /\ ~running
    /\ Len(capture_q) = pcfg.buffer_size
    /\ Len(encode_q) = pcfg.buffer_size
    /\ Len(delivered) >= 1
    /\ streaming.frames_encoded > Len(delivered)
    /\ hist.popped + Len(capture_q) < frame_counter

\* ---- What still happens after stop(), checked under SpecPipe ----

\* The payloads and frames that were queued when stop() returned.
QueuedAtStop(q) ==
    IF hist.at_stop = Nil THEN {}
    ELSE {hist.at_stop[q][i] : i \in 1..Len(hist.at_stop[q])}

LateCallbacks == {hist.late_callbacks[i] : i \in 1..Len(hist.late_callbacks)}

LateEncodesBy(t) == {p \in hist.late_encodes : p[1] = t}

\* C33, as stated: after stop() has returned the callback runs at most once
\* more, each encoder thread encodes at most one more frame, and nothing that
\* was queued in either channel when stop() returned is encoded or delivered.
C33_QueuedAtStopNeverDelivered ==
    /\ Len(hist.late_callbacks) <= 1
    /\ \A t \in EncoderIds : Cardinality(LateEncodesBy(t)) <= 1
    /\ QueuedAtStop("encode_q") \cap LateCallbacks = {}
    /\ \A p \in hist.late_encodes : p[2] \notin QueuedAtStop("capture_q")

\* C33, amended: after stop() has returned the callback runs at most once
\* more and each encoder thread encodes at most one more frame, so at most
\* one queued payload and one queued frame per encoder thread is still
\* taken; once every thread has exited the rest stays in the channels and
\* is never delivered.
C33_AtMostOneMoreAfterStop ==
    /\ [](/\ Len(hist.late_callbacks) <= 1
          /\ \A t \in EncoderIds : Cardinality(LateEncodesBy(t)) <= 1
          /\ Cardinality(QueuedAtStop("encode_q") \cap LateCallbacks) <= 1
          /\ \A t \in EncoderIds :
                Cardinality({p \in LateEncodesBy(t) :
                               p[2] \in QueuedAtStop("capture_q")}) <= 1)
    /\ [][AllThreadsExited =>
            UNCHANGED <<capture_q, encode_q, delivered, streaming>>]_vars

\* stop() returned with two payloads queued or about to be: one was still
\* delivered, the other is left in the channel after every thread has exited.
C33_Witness ==
    /\ AllThreadsExited
    /\ hist.at_stop # Nil
    /\ Len(hist.late_callbacks) = 1
    /\ hist.late_callbacks[1] \in QueuedAtStop("encode_q")
    /\ hist.late_encodes # {}
    /\ encode_q # <<>>

\* ---- The counters of the optimizer, checked under SpecZeroCopy ----

\* C35: every completed capture_zero_copy call adds one to exactly one of
\* zero_copy_captures and traditional_captures, so the two add up to the
\* calls completed since construction or the last reset_stats, and
\* failed_attempts never exceeds traditional_captures; a fresh or reset
\* optimizer has every counter at 0 and an efficiency of 0.
C35_CountersAddUpToCalls ==
    /\ [](/\ zc_stats.zero_copy_captures + zc_stats.traditional_captures
                = zc_last.completed
          /\ zc_stats.failed_attempts <= zc_stats.traditional_captures
          /\ zc_last.op \in {"new", "reset_stats"} =>
                /\ zc_stats = ZeroCopyStatsDefault
                /\ efficiency_percent(zc_stats) = 0)
    /\ [][zc_last'.completed = zc_last.completed + 1 =>
            \/ /\ zc_stats'.zero_copy_captures = zc_stats.zero_copy_captures + 1
               /\ zc_stats'.traditional_captures = zc_stats.traditional_captures
            \/ /\ zc_stats'.zero_copy_captures = zc_stats.zero_copy_captures
               /\ zc_stats'.traditional_captures
                    = zc_stats.traditional_captures + 1]_vars

\* Three completed calls of both kinds, one of them a failed attempt, and
\* an efficiency strictly between 0 and 100.
C35_Witness ==
    /\ zc_last.completed = MaxCaptures
    /\ zc_stats.zero_copy_captures >= 1
    /\ zc_stats.failed_attempts >= 1
    /\ zc_stats.traditional_captures > zc_stats.failed_attempts
    /\ efficiency_percent(zc_stats) = 33

\* ---- The stats mutex of a shared optimizer, checked under SpecZeroCopyThreads ----

InTraditionalCapture(t) == zc_thr[t].pc = "traditional"

\* C34: a thread inside capturer.capture_display on a traditional path
\* holds the stats mutex: at most one such capture is in progress per
\* optimizer, and while it lasts no other call on the optimizer returns,
\* the statistics are not written, and no other thread enters a
\* traditional capture.
C34_TraditionalCaptureHoldsLock ==
    /\ [](\A t \in ZcThreads :
            InTraditionalCapture(t) =>
                /\ zc_lock = t
                /\ \A u \in ZcThreads \ {t} : ~InTraditionalCapture(u))
    /\ [][\A t \in ZcThreads :
            (InTraditionalCapture(t) /\ zc_thr'[t].pc = "traditional") =>
                /\ zc_stats' = zc_stats
                /\ \A u \in ZcThreads \ {t} :
                     /\ zc_thr'[u].ops = zc_thr[u].ops
                     /\ zc_thr'[u].pc # "traditional"]_vars

\* One thread is inside the capturer on the fallback path while the other
\* has finished the platform path and is at the lock.
C34_Witness ==
    /\ InTraditionalCapture(1)
    /\ zc_stats.failed_attempts >= 1
    /\ zc_thr[2].pc = "platform"
    /\ zc_thr[2].ops >= 1

\* ---- Who owns a buffer of a shared pool, checked under SpecPoolThreads ----

\* C36: under every interleaving of acquire, release and clear made by
\* threads sharing the pool, no two outstanding handles own the same
\* buffer, no buffer is twice in the idle list, and no buffer is in the idle
\* list while a handle owns it.
C36_BufferHasOneOwner ==
    /\ \A i, j \in 1..Len(buffers) : buffers[i].id = buffers[j].id => i = j
    /\ \A t, u \in PoolThreads :
         \A i \in 1..Len(thr[t].held), j \in 1..Len(thr[u].held) :
            thr[t].held[i].id = thr[u].held[j].id => (t = u /\ i = j)
    /\ \A t \in PoolThreads : HeldBufferIds(t) \cap IdleBufferIds = {}

\* Both threads hold a buffer, one of them taken from the idle list, and
\* the idle list is empty.
C36_Witness ==
    /\ pool_pc = "shared"
    /\ stats.buffer_hits >= 1
    /\ \A t \in PoolThreads : thr[t].held # <<>>
    /\ \E t \in PoolThreads : thr[t].ops = MaxThreadOps
    /\ buffers = <<>>

\* ---- The retry loop of capture_display, checked under SpecScreenshot ----

\* C37: a capture_display call makes at most max_retries + 1 attempts; it
\* returns Ok at its first successful attempt; every attempt before the
\* last failed with a recoverable error while attempts remained; an error
\* that is returned is the one of the last attempt, and a recoverable one
\* is returned only when no attempt remains; every call that returns
\* records one outcome, so total_captures = successful_captures +
\* failed_captures = the calls returned since the last reset.
C37_RetryOnlyRecoverable ==
    /\ [](/\ shot.attempt <= shot.max_retries
          /\ shot.stats.total_captures
               = shot.stats.successful_captures + shot.stats.failed_captures
          /\ shot.stats.total_captures = shot.returned
          /\ shot_last # Nil =>
               /\ shot_last.attempts <= shot.max_retries + 1
               /\ \A i \in 1..Len(shot_last.errors) :
                    i < shot_last.attempts => is_recoverable(shot_last.errors[i])
               /\ shot_last.result = "Ok" =>
                    Len(shot_last.errors) = shot_last.attempts - 1
               /\ shot_last.result \in CaptureErrors =>
                    /\ Len(shot_last.errors) = shot_last.attempts
                    /\ shot_last.errors[shot_last.attempts] = shot_last.result
                    /\ is_recoverable(shot_last.result) =>
                         shot_last.attempts = shot.max_retries + 1)
    /\ [][shot'.returned = shot.returned + 1 =>
            /\ shot'.stats.total_captures = shot.stats.total_captures + 1
            /\ \/ /\ shot_last'.result = "Ok"
                  /\ shot'.stats.successful_captures
                       = shot.stats.successful_captures + 1
                  /\ shot'.stats.failed_captures = shot.stats.failed_captures
               \/ /\ shot_last'.result \in CaptureErrors
                  /\ shot'.stats.failed_captures = shot.stats.failed_captures + 1
                  /\ shot'.stats.successful_captures
                       = shot.stats.successful_captures]_vars

\* A second call gave up after max_retries + 1 = 3 recoverable errors,
\* after a first call that succeeded.
C37_Witness ==
    /\ shot.max_retries = MaxRetries
    /\ shot_last # Nil
    /\ shot_last.attempts = MaxRetries + 1
    /\ shot_last.result = "CaptureTimeout"
    /\ shot.stats.successful_captures = 1
    /\ shot.stats.failed_captures = 1

\* ---- The averages of the statistics thread, checked under SpecStatsThread ----

\* C38: a sample sets avg_capture_time to the sum of the capture durations
\* of the frames captured so far divided by their number, and
\* avg_encode_time to total_encode_time / frames_encoded; so once a sample
\* has been taken after frames of non-zero capture duration were captured,
\* avg_capture_time is not zero.
C38_AveragesFollowTheFrames ==
    hist.samples >= 1 =>
        /\ hist.at_sample.frames > 0 =>
              /\ streaming.avg_capture_time
                   = hist.at_sample.capture_time \div hist.at_sample.frames
              /\ streaming.avg_capture_time > 0
        /\ hist.at_sample.encoded > 0 =>
              streaming.avg_encode_time
                 = hist.at_sample.encode_time \div hist.at_sample.encoded

\* ---- The pacing of a capture thread, checked under SpecPacing ----

\* C39: the deadline of a capture thread is its start time plus one frame
\* interval (1,000,000 / target_fps microseconds) for every iteration that
\* reached the pacing step, whether its capture succeeded or not;
\* iteration k+1 never starts before start_time + k * interval; and in an
\* elapsed time T the thread enqueues at most floor(T / interval) + 1
\* frames, at most 6 in 500 ms at target_fps = 10.
C39_PacedByAccumulatingDeadline ==
    /\ [](pace.pc # "spawned" =>
            /\ pace.next_frame_time
                 = pace.start_time + pace.paced * frame_duration(pace.target_fps)
            /\ pace.pc \in {"loop", "sleep"} => pace.paced = pace.iterations
            /\ pace.enqueued
                 <= (clock - pace.start_time) \div frame_duration(pace.target_fps) + 1
            /\ (pace.target_fps = 10 /\ clock - pace.start_time <= 500000) =>
                  pace.enqueued <= 6)
    /\ [][pace'.iterations = pace.iterations + 1 =>
            clock >= pace.start_time
                       + pace.iterations * frame_duration(pace.target_fps)]_vars

\* At 10 frames per second, 500 ms after a thread that began late set its
\* first deadline, six frames are enqueued.
C39_Witness ==
    /\ pace.target_fps = 10
    /\ pace.pc # "spawned"
    /\ clock - pace.start_time = 500000
    /\ pace.enqueued = 6
    /\ pace.start_time > 0

\* ---- The two pixel converters, checked under SpecPixelConverter ----

\* C40: on every buffer, of a length that is a multiple of 4 or not,
\* SimdPixelConverter::convert_bgra_to_rgba returns and leaves the bytes
\* DefaultPixelConverter::convert_bgra_to_rgba leaves.
C40_SimdPixelConverterMatchesDefault ==
    \A i \in 1..Len(simd_log) :
        simd_log[i].op = "SimdPixelConverter" =>
            /\ simd_log[i].status = "ok"
            /\ simd_log[i].data_out
                 = DefaultPixelConverter_convert_bgra_to_rgba(simd_log[i].data_in).data

====
